---- MODULE Spec2Model ----
(***************************************************************************)
(* Installer / updater subsystem of obsidian-mcp-tools:                    *)
(*   - downloadFile (services/install.ts): the event handlers of one       *)
(*     download, its redirect chain, the shared rxjs Subscriber and the    *)
(*     fire-and-forget unlink / chmod of cleanup();                        *)
(*   - updateClaudeConfig / removeFromClaudeConfig (services/config.ts);   *)
(*   - getInstallationStatus (services/status.ts);                         *)
(*   - normalizeDuplicateSegments (utils/normalizePath.ts), the collapse   *)
(*     that getInstallPath applies to the resolved directory;              *)
(*   - resolveSymlinks (services/status.ts), the component-by-component    *)
(*     walk of an install path that does not exist yet.                    *)
(***************************************************************************)
EXTENDS Integers, Sequences, FiniteSets, TLC

\* ------------------------------------------------------------------ bounds
MaxChunks == 2

\* the largest "data" chunk, in bytes
MaxChunkSize == 3

\* the longest Content-Length header value, in characters
MaxHeaderLen == 2

\* the longest path given to normalizeDuplicateSegments, in tokens (a separator
\* or a name character)
MaxPathLen == 9

\* `if (redirects > 5)` in downloadFile
MaxRedirects == 5

\* writes of another program to the configuration file during one call
MaxForeignWrites == 2

\* template-execution requests the server handles, possibly at once
MaxRequests == 2

\* ------------------------------------------------------------------ state
VARIABLES
  calls,          \* the chain of downloadFile invocations, outermost first
  fileStream,     \* `fileStream` of the invocation that got status 200
  file,           \* the directory entry at outputPath
  linked,         \* the stream's open file is still the entry at outputPath
  subscriber,     \* the rxjs Subscriber shared by the whole chain
  observed,       \* notifications delivered to the consumer, in order
  pendingUnlink,  \* fsp.unlink promises started by cleanup(err), not settled
  pendingChmod,   \* fsp.chmod promises started by cleanup(), not settled
  logged,         \* logger.error messages written by the catch handlers
  chunks,         \* "data" events delivered so far
  everOpened,     \* outputPath has been opened for writing by this download
  failedAfterOpen,\* cleanup(err) ran after outputPath had been opened
  unlinkFailed,   \* an unlink started by cleanup(err) was rejected with the file in place
  cancelled,      \* the consumer unsubscribed while the download was in flight
  cfgDir,         \* the directory of the host configuration file exists
  cfgFile,        \* the host configuration file
  lastCall,       \* the last updateClaudeConfig / removeFromClaudeConfig call
  stInput,        \* what one getInstallationStatus call finds: manifest, key, disk, binary
  stPc,           \* the position of that call
  stTouched,      \* what the call has looked at: key, adapter, disk, subprocess
  stResult,       \* what the call returned
  npInput,        \* the platform and the path given to normalizeDuplicateSegments
  npPc,           \* the position of that call
  npResult,       \* the path it returned
  rsFs,           \* the file system and working directory resolveSymlinks meets
  rsPc,           \* the position of one resolveSymlinks call
  rsTodo,         \* the parts the for loop has still to process
  rsResolved,     \* `resolvedParts`
  rsCaught,       \* the error codes caught by the loop's catch
  rsResult,       \* the path the call returned
  rpInput,        \* one response as the https.get callback receives it
  rpPc,           \* the position of that callback
  rpOut,          \* how the callback ended: an error message, "redirect" or "ok"
  pgHeader,       \* the content-length header of a response being streamed
  pgPc,           \* the state of that response's "data" handler
  pgDownloaded,   \* `downloadedBytes`
  pgChunks,       \* the sizes of the Buffer chunks received so far
  pgEvents,       \* the DownloadProgress values passed to subscriber.next
  plInput,        \* the plugin argument and the detected system of one installMcpServer call
  plPc,           \* the position of that call
  plOut,          \* the platform, arch, download name and install path it resolved
  inEnv,          \* the environment of one installMcpServer call
  inDir,          \* what is at installPath.dir
  inPc,           \* the position of that call
  inError,        \* the error it was rejected with
  inRequests,     \* download requests issued
  olEnv,          \* how the Local REST API load settles and which api call throws
  olPc,           \* the position of onload and its promise chain
  olTrace,        \* api calls and log messages, in order
  olNotices,      \* notices shown
  cwFile,         \* the host configuration file, with another writer around
  cwCall,         \* the updateClaudeConfig / removeFromClaudeConfig call under way
  cwPc,           \* the position of that call
  cwRead,         \* the document the call has read
  cwForeign,      \* writes of the other program so far
  tpGenerate,     \* templater.functions_generator.generate_object
  tpReq           \* the template-execution requests: position, oldGenerateObject, prompt seen

dlVars == <<calls, fileStream, file, linked, subscriber, observed, pendingUnlink,
            pendingChmod, logged, chunks, everOpened, failedAfterOpen,
            unlinkFailed, cancelled>>

cfgVars == <<cfgDir, cfgFile, lastCall>>

stVars == <<stInput, stPc, stTouched, stResult>>

npVars == <<npInput, npPc, npResult>>

rsVars == <<rsFs, rsPc, rsTodo, rsResolved, rsCaught, rsResult>>

rpVars == <<rpInput, rpPc, rpOut>>

pgVars == <<pgHeader, pgPc, pgDownloaded, pgChunks, pgEvents>>

plVars == <<plInput, plPc, plOut>>

inVars == <<inEnv, inDir, inPc, inError, inRequests>>

olVars == <<olEnv, olPc, olTrace, olNotices>>

cwVars == <<cwFile, cwCall, cwPc, cwRead, cwForeign>>

tpVars == <<tpGenerate, tpReq>>

vars == <<dlVars, cfgVars, stVars, npVars, rsVars, rpVars, pgVars, plVars, inVars, olVars, cwVars, tpVars>>

notDl == <<cfgVars, stVars, npVars, rsVars, rpVars, pgVars, plVars, inVars, olVars, cwVars, tpVars>>
notCfg == <<dlVars, stVars, npVars, rsVars, rpVars, pgVars, plVars, inVars, olVars, cwVars, tpVars>>
notSt == <<dlVars, cfgVars, npVars, rsVars, rpVars, pgVars, plVars, inVars, olVars, cwVars, tpVars>>
notNp == <<dlVars, cfgVars, stVars, rsVars, rpVars, pgVars, plVars, inVars, olVars, cwVars, tpVars>>
notRs == <<dlVars, cfgVars, stVars, npVars, rpVars, pgVars, plVars, inVars, olVars, cwVars, tpVars>>
notRp == <<dlVars, cfgVars, stVars, npVars, rsVars, pgVars, plVars, inVars, olVars, cwVars, tpVars>>
notPg == <<dlVars, cfgVars, stVars, npVars, rsVars, rpVars, plVars, inVars, olVars, cwVars, tpVars>>
notPl == <<dlVars, cfgVars, stVars, npVars, rsVars, rpVars, pgVars, inVars, olVars, cwVars, tpVars>>
notIn == <<dlVars, cfgVars, stVars, npVars, rsVars, rpVars, pgVars, plVars, olVars, cwVars, tpVars>>
notOl == <<dlVars, cfgVars, stVars, npVars, rsVars, rpVars, pgVars, plVars, inVars, cwVars, tpVars>>
notCw == <<dlVars, cfgVars, stVars, npVars, rsVars, rpVars, pgVars, plVars, inVars, olVars, tpVars>>
notTp == <<dlVars, cfgVars, stVars, npVars, rsVars, rpVars, pgVars, plVars, inVars, olVars, cwVars>>

\* ------------------------------------------------------------------ files
NoFile == [exists |-> FALSE, content |-> "none", exec |-> FALSE]

\* a binary left by an earlier install (chmod 0o755 had succeeded)
OldFile == [exists |-> TRUE, content |-> "old", exec |-> TRUE]

\* fs.createWriteStream(outputPath, {flags: "w"}): create or truncate
OpenForWrite(f) == [exists |-> TRUE, content |-> "partial",
                    exec |-> IF f.exists THEN f.exec ELSE FALSE]

\* ------------------------------------------------------------------ rxjs Subscriber
NewSubscriber == [isStopped |-> FALSE, closed |-> FALSE]

\* Subscriber.next: dropped once the subscriber is stopped
SubscriberNext(s, obs, v) ==
  IF s.isStopped THEN <<s, obs>> ELSE <<s, Append(obs, v)>>

\* Subscriber.error / Subscriber.complete without the isStopped guard
UnguardedTerminal(s, obs, v) ==
  <<[isStopped |-> TRUE, closed |-> TRUE], Append(obs, v)>>

\* Subscriber.error / Subscriber.complete: deliver once, then stop and unsubscribe
SubscriberTerminal(s, obs, v) ==
  IF s.isStopped THEN <<s, obs>>
  ELSE <<[isStopped |-> TRUE, closed |-> TRUE], Append(obs, v)>>

Progress == [t |-> "next", e |-> "progress"]
Complete == [t |-> "complete", e |-> "complete"]
Err(msg) == [t |-> "error", e |-> msg]

Emit(pair) == /\ subscriber' = pair[1]
              /\ observed' = pair[2]

SubError(msg) == Emit(SubscriberTerminal(subscriber, observed, Err(msg)))

\* ------------------------------------------------------------------ cleanup
\* fileStream?.destroy(): a stream still opening finishes its open, then closes
Destroy(fsState) ==
  CASE fsState = "opening" -> "destroyedOpening"
    [] fsState = "open"    -> "destroyed"
    [] OTHER               -> fsState

\* cleanup(err) in the closure of invocation i, called when the stream is in
\* state fsNow: only the invocation that opened the stream sees it; every
\* invocation unlinks outputPath
CleanupErr(i, fsNow) ==
  /\ fileStream' = IF i = Len(calls) THEN Destroy(fsNow) ELSE fileStream
  /\ pendingUnlink' = pendingUnlink + 1
  /\ failedAfterOpen' = (failedAfterOpen \/ everOpened)

\* cleanup() after "finish": close the stream, chmod 0o755 in the background
CleanupOk ==
  /\ fileStream' = "finished"
  /\ pendingChmod' = pendingChmod + 1

\* ------------------------------------------------------------------ downloadFile
\* the redirect limit tested with >= instead of >
NewCallOffByOne(r) == [redirects |-> r,
                       req |-> IF r >= MaxRedirects THEN "none" ELSE "pending",
                       reqErrored |-> FALSE]

\* the body of `new Observable((subscriber) => ...)` for a given redirect count:
\* the record of the new invocation
NewCall(r) == [redirects |-> r,
               req |-> IF r > MaxRedirects THEN "none" ELSE "pending",
               reqErrored |-> FALSE]

DlInit ==
  /\ calls = <<>>
  /\ fileStream = "undefined"
  /\ file \in {NoFile, OldFile}
  /\ linked = FALSE
  /\ subscriber = NewSubscriber
  /\ observed = <<>>
  /\ pendingUnlink = 0
  /\ pendingChmod = 0
  /\ logged = {}
  /\ chunks = 0
  /\ everOpened = FALSE
  /\ failedAfterOpen = FALSE
  /\ unlinkFailed = FALSE
  /\ cancelled = FALSE

\* no download is running while another subsystem is studied
DlIdle == DlInit /\ file = NoFile

Last == calls[Len(calls)]

SetReq(i, st) == calls' = [calls EXCEPT ![i].req = st]

\* installMcpServer: download$.subscribe({next, error, complete})
Subscribe ==
  /\ calls = <<>>
  /\ calls' = <<NewCall(0)>>
  /\ UNCHANGED <<fileStream, file, linked, subscriber, observed, pendingUnlink,
                 pendingChmod, logged, chunks, everOpened, failedAfterOpen,
                 unlinkFailed, cancelled,
                 notDl>>

Statuses == {200, 204, 301, 302, 404}

\* response.headers["content-length"]: undefined, or the text of the header
DigitValue == [c \in {"1", "2"} |-> IF c = "1" THEN 1 ELSE 2]
HeaderChars == DOMAIN DigitValue \cup {"x"}
NoHeader == [present |-> FALSE, text |-> <<>>]
ContentLengths(maxLen) ==
  {NoHeader} \cup {[present |-> TRUE, text |-> t] :
                     t \in UNION {[1..n -> HeaderChars] : n \in 0..maxLen}}

\* `contentLength ? ... : ...`: undefined and "" are falsy
HeaderTruthy(h) == h.present /\ h.text # <<>>

\* parseInt(text, 10): the value of the leading digits, NaN when there is none
RECURSIVE ParseDigits(_, _)
ParseDigits(text, acc) ==
  IF text = <<>> \/ Head(text) \notin DOMAIN DigitValue THEN acc
  ELSE ParseDigits(Tail(text), acc * 10 + DigitValue[Head(text)])

ParseInt(text) ==
  IF text = <<>> \/ Head(text) \notin DOMAIN DigitValue
    THEN [isNaN |-> TRUE, value |-> 0]
    ELSE [isNaN |-> FALSE, value |-> ParseDigits(text, 0)]

\* the checks of the https.get callback, in the order of the code: the error
\* thrown, or "redirect", or "ok" when the write stream is created
ResponseOutcome(status, hasLocation, contentLength, openThrows) ==
  CASE status >= 400 -> "HTTP Error"
    [] status \in {301, 302} /\ ~hasLocation -> "Redirect received but no location header found"
    [] status \in {301, 302} -> "redirect"
    [] status # 200 -> "Unexpected status code"
    [] HeaderTruthy(contentLength) /\ ParseInt(contentLength.text).isNaN ->
         "Invalid content-length header"
    [] openThrows -> "Failed to create write stream"
    [] OTHER -> "ok"

\* the https.get callback of the innermost invocation
Response ==
  /\ calls # <<>> /\ Last.req = "pending"
  /\ \E status \in Statuses, hasLocation \in BOOLEAN,
        contentLength \in ContentLengths(MaxHeaderLen), openThrows \in BOOLEAN :
       LET out == ResponseOutcome(status, hasLocation, contentLength, openThrows)
           next == NewCall(Last.redirects + 1)
       IN CASE out = "ok" ->
                 \* fs.createWriteStream, the handlers, response.pipe(fileStream)
                 /\ SetReq(Len(calls), "streaming")
                 /\ fileStream' = "opening"
                 /\ UNCHANGED <<subscriber, observed, pendingUnlink, failedAfterOpen>>
            [] out = "redirect" ->
                 \* downloadFile(redirectUrl, outputPath, redirects + 1).subscribe(subscriber)
                 /\ calls' = Append([calls EXCEPT ![Len(calls)].req = "redirected"], next)
                 /\ IF next.req = "none"
                      THEN SubError("Too many redirects")
                      ELSE UNCHANGED <<subscriber, observed>>
                 /\ UNCHANGED <<fileStream, pendingUnlink, failedAfterOpen>>
            [] OTHER ->
                 \* catch (err) { cleanup(err); subscriber.error(err) }
                 /\ SetReq(Len(calls), "rejected")
                 /\ CleanupErr(Len(calls), fileStream)
                 /\ SubError(out)
  /\ UNCHANGED <<file, linked, pendingChmod, logged, chunks, everOpened,
                 unlinkFailed, cancelled,
                 notDl>>

\* the write stream's open completes: the file is created or truncated; a stream
\* destroyed in the meantime closes right after
FileOpen ==
  /\ fileStream \in {"opening", "destroyedOpening"}
  /\ file' = OpenForWrite(file)
  /\ linked' = TRUE
  /\ everOpened' = TRUE
  /\ fileStream' = IF fileStream = "opening" THEN "open" ELSE "destroyed"
  /\ UNCHANGED <<calls, subscriber, observed, pendingUnlink, pendingChmod, logged,
                 chunks, failedAfterOpen, unlinkFailed, cancelled,
                 notDl>>

\* fileStream.on("error"): the open or a write fails; the stream has destroyed
\* itself when the handler runs
FileStreamError ==
  /\ fileStream \in {"opening", "open"}
  /\ CleanupErr(Len(calls), "errored")
  /\ SubError("File stream error")
  /\ UNCHANGED <<calls, file, linked, pendingChmod, logged, chunks, everOpened,
                 unlinkFailed, cancelled,
                 notDl>>

\* response.on("data")
ResponseData ==
  /\ calls # <<>> /\ Last.req = "streaming"
  /\ chunks < MaxChunks
  /\ chunks' = chunks + 1
  /\ \E isBuffer \in BOOLEAN :
       IF isBuffer
         THEN /\ Emit(SubscriberNext(subscriber, observed, Progress))
              /\ UNCHANGED <<fileStream, pendingUnlink, failedAfterOpen>>
         ELSE /\ CleanupErr(Len(calls), fileStream)
              /\ SubError("Received invalid data chunk")
  /\ UNCHANGED <<calls, file, linked, pendingChmod, logged, everOpened,
                 unlinkFailed, cancelled,
                 notDl>>

\* the response ends: pipe ends the write stream
ResponseEnd ==
  /\ calls # <<>> /\ Last.req = "streaming"
  /\ SetReq(Len(calls), "ended")
  /\ UNCHANGED <<fileStream, file, linked, subscriber, observed, pendingUnlink,
                 pendingChmod, logged, chunks, everOpened, failedAfterOpen,
                 unlinkFailed, cancelled,
                 notDl>>

\* fileStream.on("finish")
FileFinish ==
  /\ calls # <<>> /\ Last.req = "ended"
  /\ fileStream = "open"
  /\ CleanupOk
  /\ file' = IF linked THEN [file EXCEPT !.content = "complete"] ELSE file
  /\ Emit(SubscriberTerminal(subscriber, observed, Complete))
  /\ UNCHANGED <<calls, linked, pendingUnlink, logged, chunks, everOpened,
                 failedAfterOpen, unlinkFailed, cancelled,
                 notDl>>

\* response.on("error")
ResponseError ==
  /\ calls # <<>> /\ Last.req \in {"streaming", "dying"}
  /\ SetReq(Len(calls), "aborted")
  /\ CleanupErr(Len(calls), fileStream)
  /\ SubError("Response error")
  /\ UNCHANGED <<file, linked, pendingChmod, logged, chunks, everOpened,
                 unlinkFailed, cancelled,
                 notDl>>

\* https.get(...).on("error") of invocation i: the socket of a request fails,
\* before its response or while the response has not been consumed to its end
RequestError(i) ==
  /\ i \in 1..Len(calls)
  /\ ~calls[i].reqErrored
  /\ calls[i].req \in {"pending", "redirected", "rejected", "streaming", "aborted"}
  /\ calls' = [calls EXCEPT ![i].reqErrored = TRUE,
                            ![i].req = CASE @ = "pending" -> "failed"
                                         [] @ = "streaming" -> "dying"
                                         [] OTHER -> @]
  /\ CleanupErr(i, fileStream)
  /\ SubError("Network error")
  /\ UNCHANGED <<file, linked, pendingChmod, logged, chunks, everOpened,
                 unlinkFailed, cancelled,
                 notDl>>

\* a pending fsp.unlink(outputPath) settles
UnlinkSettle ==
  /\ pendingUnlink > 0
  /\ pendingUnlink' = pendingUnlink - 1
  /\ \/ /\ file.exists
        /\ file' = NoFile
        /\ linked' = FALSE
        /\ UNCHANGED <<logged, unlinkFailed>>
     \/ /\ logged' = logged \cup {"Failed to clean up incomplete download"}
        /\ unlinkFailed' = (unlinkFailed \/ file.exists)
        /\ UNCHANGED <<file, linked>>
  /\ UNCHANGED <<calls, fileStream, subscriber, observed, pendingChmod, chunks,
                 everOpened, failedAfterOpen, cancelled,
                 notDl>>

\* a chmod whose failure is handled like a failed download: the file is removed
ChmodSettleFatal ==
  /\ pendingChmod > 0
  /\ pendingChmod' = pendingChmod - 1
  /\ \/ /\ file.exists
        /\ file' = [file EXCEPT !.exec = TRUE]
        /\ UNCHANGED <<logged, linked>>
     \/ /\ logged' = logged \cup {"Failed to set executable permissions"}
        /\ file' = NoFile
        /\ linked' = FALSE
  /\ UNCHANGED <<calls, fileStream, subscriber, observed, pendingUnlink,
                 chunks, everOpened, failedAfterOpen, unlinkFailed, cancelled,
                 notDl>>

\* a pending fsp.chmod(outputPath, 0o755) settles
ChmodSettle ==
  /\ pendingChmod > 0
  /\ pendingChmod' = pendingChmod - 1
  /\ \/ /\ file.exists
        /\ file' = [file EXCEPT !.exec = TRUE]
        /\ UNCHANGED logged
     \/ /\ logged' = logged \cup {"Failed to set executable permissions"}
        /\ UNCHANGED file
  /\ UNCHANGED <<calls, fileStream, linked, subscriber, observed, pendingUnlink,
                 chunks, everOpened, failedAfterOpen, unlinkFailed, cancelled,
                 notDl>>

InFlight == /\ calls # <<>>
            /\ \/ Last.req \in {"pending", "streaming"}
               \/ Last.req = "ended" /\ fileStream \in {"opening", "open"}

\* the consumer unsubscribes; the Observable's subscribe function returns no
\* teardown, so nothing of the producer is touched
Unsubscribe ==
  /\ calls # <<>>
  /\ ~subscriber.closed
  /\ subscriber' = [isStopped |-> TRUE, closed |-> TRUE]
  /\ cancelled' = (cancelled \/ InFlight)
  /\ UNCHANGED <<calls, fileStream, file, linked, observed, pendingUnlink,
                 pendingChmod, logged, chunks, everOpened, failedAfterOpen,
                 unlinkFailed,
                 notDl>>

DlNext ==
  \/ Subscribe
  \/ Response
  \/ FileOpen
  \/ FileStreamError
  \/ ResponseData
  \/ ResponseEnd
  \/ FileFinish
  \/ ResponseError
  \/ \E i \in 1..(MaxRedirects + 2) : RequestError(i)
  \/ UnlinkSettle
  \/ ChmodSettle
  \/ Unsubscribe


\* ------------------------------------------------------------------ properties of downloadFile
Terminal(v) == v.t \in {"error", "complete"}
Delivered(v) == \E k \in 1..Len(observed) : observed[k] = v

\* C1: once a download has failed after outputPath was opened for writing and
\* every unlink started by cleanup(err) has settled, no file exists at outputPath.
PartialFileRemoved ==
  (failedAfterOpen /\ pendingUnlink = 0) => ~file.exists

\* C3: the consumer observes at most one terminal notification (an error or the
\* completion, never both) and nothing after it.
AtMostOneTerminal ==
  \A k \in 1..Len(observed) : Terminal(observed[k]) => k = Len(observed)

\* C3 witness: a redirect was followed, progress and then an error were
\* delivered, and a second failing handler ran without a second notification.
SecondTerminalSuppressed ==
  /\ Len(calls) >= 2
  /\ Len(observed) >= 2
  /\ observed[Len(observed)].t = "error"
  /\ \E i \in 1..Len(calls) : calls[i].reqErrored
  /\ Last.req = "aborted"

\* C4: once the consumer has unsubscribed from a download in flight, the
\* transfer is stopped: the write stream is neither being written nor finished.
UnsubscribeStopsTransfer ==
  cancelled => fileStream \notin {"opening", "open", "finished"}

\* C5: the invocations form a chain with redirect counts 0, 1, 2, ...; each
\* followed redirect response caused exactly one further invocation; an
\* invocation issues a request exactly when its count is at most 5, so the
\* invocation made for the 6th redirect issues none and fails with "Too many
\* redirects" (delivered unless the consumer has already been notified of a
\* failure of an earlier request, or has unsubscribed).
RedirectChain ==
  /\ \A i \in 1..Len(calls) :
        /\ calls[i].redirects = i - 1
        /\ (calls[i].req = "none") <=> (calls[i].redirects > MaxRedirects)
        /\ (calls[i].req = "redirected") <=> (i < Len(calls))
  /\ Len(calls) <= MaxRedirects + 2
  /\ (calls # <<>> /\ Last.req = "none") =>
        /\ Last.redirects = MaxRedirects + 1
        /\ subscriber.isStopped
        /\ fileStream = "undefined"
        /\ ((~cancelled /\ \A i \in 1..Len(calls) : ~calls[i].reqErrored)
              => observed = <<Err("Too many redirects")>>)

\* C5 witness: six chained redirects; the seventh invocation issued no request
\* and the consumer got "Too many redirects".
SixRedirectsFail ==
  /\ Len(calls) = MaxRedirects + 2
  /\ Last.req = "none"
  /\ Delivered(Err("Too many redirects"))

\* C21: when the whole body has been written and the chmod 0o755 fails, the
\* failure is only logged: the consumer has got the completion and no error,
\* and the written file is in place (in a download none of whose requests
\* failed and that the consumer did not abandon).
ChmodFailureOnlyLogged ==
  (/\ "Failed to set executable permissions" \in logged
   /\ ~cancelled
   /\ \A i \in 1..Len(calls) : ~calls[i].reqErrored) =>
    /\ fileStream = "finished"
    /\ observed # <<>> /\ observed[Len(observed)] = Complete
    /\ \A k \in 1..Len(observed) : observed[k].t # "error"
    /\ file.exists /\ file.content = "complete"

\* C21 witness: progress, completion, then the chmod was rejected: the complete
\* file is there without its executable bit.
ChmodRejectedAfterFinish ==
  /\ "Failed to set executable permissions" \in logged
  /\ pendingChmod = 0
  /\ Len(observed) >= 2 /\ observed[Len(observed)] = Complete
  /\ file.exists /\ file.content = "complete" /\ ~file.exec

\* C31: as long as this download has not opened outputPath, a binary that was
\* there before stays present and unmodified, whatever failure ends the
\* download (HTTP error, bad redirect, unexpected status, invalid
\* Content-Length, connection error, too many redirects).
ExistingFileKept ==
  [][(file = OldFile /\ ~everOpened') => file' = OldFile]_vars

\* C32: when completion has been notified, no chmod of this download is
\* still pending and the file at outputPath is executable.
CompletedIsExecutable ==
  (observed # <<>> /\ observed[Len(observed)] = Complete) =>
    /\ pendingChmod = 0
    /\ file.exists => file.exec

\* C33: once the terminal notification has been delivered, no step of this
\* download (a pending unlink or chmod, a late event) changes what is at
\* outputPath.
NoLateModification ==
  [][(observed # <<>> /\ Terminal(observed[Len(observed)])) => file' = file]_vars

\* ------------------------------------------------------------------ host configuration file
Undefined == "undefined"

\* truthiness of a string | undefined, as tested by `||` and `if`
Truthy(x) == x \notin {Undefined, ""}

ServerId == "obsidian-mcp-tools"
OtherId == "other-server"
EnvKeys == {"OBSIDIAN_API_KEY", "OBSIDIAN_HOST", "FOO"}

EmptyMap == [k \in {} |-> ""]

\* property read obj[k] of a JS object: undefined when the key is absent
Get(obj, k) == IF k \in DOMAIN obj THEN obj[k] ELSE Undefined

\* a merge in which the keys already in the target keep their value
AssignMissing(target, source) ==
  [k \in (DOMAIN target) \cup (DOMAIN source) |->
     IF k \in DOMAIN target THEN target[k] ELSE source[k]]

\* Object.assign(target, source)
ObjectAssign(target, source) ==
  [k \in (DOMAIN target) \cup (DOMAIN source) |->
     IF k \in DOMAIN source THEN source[k] ELSE target[k]]

\* delete obj[k]
Delete(obj, k) == [j \in (DOMAIN obj) \ {k} |-> obj[j]]

\* obj[k] = v
Put(obj, k, v) == [j \in (DOMAIN obj) \cup {k} |-> IF j = k THEN v ELSE obj[j]]

\* interface ClaudeConfig: a JSON object with an optional (possibly null)
\* mcpServers map and the other keys of the host application
EmptyDoc == [mcp |-> "object", servers |-> EmptyMap, other |-> "none"]

AbsentFile == [kind |-> "absent", doc |-> EmptyDoc]
MalformedFile == [kind |-> "malformed", doc |-> EmptyDoc]
TruncatedFile == [kind |-> "truncated", doc |-> EmptyDoc]
JsonFile(d) == [kind |-> "json", doc |-> d]

\* JSON.stringify of an entry: properties whose value is undefined are omitted
StringifyEntry(e) ==
  [e EXCEPT !.env = [k \in {j \in DOMAIN e.env : e.env[j] # Undefined} |-> e.env[k]]]

\* JSON.stringify(config, null, 2), as the document a reader parses back
Stringify(config) ==
  [config EXCEPT !.servers = [id \in DOMAIN config.servers |->
                                StringifyEntry(config.servers[id])]]

\* readFile + JSON.parse that treats unparsable content like a missing file
ReadConfigLenient(f, readOutcome) ==
  CASE readOutcome # "ok"  -> [err |-> readOutcome, config |-> EmptyDoc]
    [] f.kind = "json"     -> [err |-> "none", config |-> f.doc]
    [] OTHER               -> [err |-> "ENOENT", config |-> EmptyDoc]

\* fsp.readFile(configPath, "utf8") then JSON.parse(content): the error thrown
\* ("none" when none) and the parsed document
ReadConfig(f, readOutcome) ==
  CASE readOutcome # "ok"  -> [err |-> readOutcome, config |-> EmptyDoc]
    [] f.kind = "absent"   -> [err |-> "ENOENT", config |-> EmptyDoc]
    [] f.kind = "json"     -> [err |-> "none", config |-> f.doc]
    [] OTHER               -> [err |-> "SyntaxError", config |-> EmptyDoc]

\* fsp.writeFile(configPath, text): open with truncation, then write; it can
\* fail before the truncation or after it
WriteFile(f, text, writeOutcome) ==
  CASE writeOutcome = "ok"           -> JsonFile(text)
    [] writeOutcome = "failedEarly"  -> f
    [] OTHER                         -> TruncatedFile

WriteOutcomes == {"ok", "failedEarly", "failedPartway"}
ReadOutcomes == {"ok", "EACCES"}

\* the entry built by updateClaudeConfig: { command, env }
BuildEntry(serverPath, apiKey, settings) ==
  LET env0 == [k \in {"OBSIDIAN_API_KEY"} |-> apiKey]
      env1 == IF Truthy(settings.customHost)
                THEN Put(env0, "OBSIDIAN_HOST", settings.customHost)
                ELSE env0
  IN [command |-> IF Truthy(settings.customCommand)
                    THEN settings.customCommand ELSE serverPath,
      hasArgs |-> FALSE,
      env     |-> ObjectAssign(env1, settings.customEnvVars)]

\* an upsert that removes an entry it finds already present
UpsertToggle(config, entry) ==
  IF ServerId \in DOMAIN config.servers
    THEN [config EXCEPT !.servers = Delete(@, ServerId)]
    ELSE [mcp |-> "object", servers |-> Put(config.servers, ServerId, entry),
          other |-> config.other]

\* an upsert that rebuilds the document around the new entry
UpsertFresh(config, entry) ==
  [mcp |-> "object", servers |-> Put(EmptyMap, ServerId, entry), other |-> "none"]

\* config.mcpServers = config.mcpServers || {};
\* config.mcpServers["obsidian-mcp-tools"] = { command, env }
Upsert(config, entry) ==
  [mcp     |-> "object",
   servers |-> Put(IF config.mcp = "object" THEN config.servers ELSE EmptyMap,
                   ServerId, entry),
   other   |-> config.other]

\* a removal that empties mcpServers
RemoveAll(config) == [config EXCEPT !.servers = EmptyMap]

\* delete config.mcpServers["obsidian-mcp-tools"]
RemoveEntry(config) == [config EXCEPT !.servers = Delete(@, ServerId)]

\* config.mcpServers && "obsidian-mcp-tools" in config.mcpServers
HasEntry(config) == config.mcp = "object" /\ ServerId \in DOMAIN config.servers

NoSettings == [customCommand |-> Undefined, customHost |-> Undefined,
               customEnvVars |-> EmptyMap]
NoEntry == [command |-> "", hasArgs |-> FALSE, env |-> EmptyMap]

NoCall == [op |-> "none", serverPath |-> "", apiKey |-> Undefined,
           settings |-> NoSettings, entry |-> NoEntry, readErr |-> "none",
           result |-> "ok", wrote |-> FALSE, pre |-> AbsentFile,
           target |-> AbsentFile, repeated |-> FALSE]

\* the inputs of the calls
ServerPaths == {"/vault/bin/mcp-server"}
ApiKeys == {Undefined, "key"}
CustomCommands == {Undefined, "", "wsl.exe"}
CustomHosts == {Undefined, "https://host:27124"}
CustomEnvVarSets == {EmptyMap,
                     [k \in {"FOO"} |-> "bar"],
                     [k \in {"OBSIDIAN_API_KEY"} |-> "user-key"],
                     [k \in {"OBSIDIAN_HOST"} |-> "https://user-host:27124"]}

\* entries found in the file before the first call
OldEntry == [command |-> "/old/mcp-server", hasArgs |-> TRUE,
             env |-> [k \in {"OBSIDIAN_API_KEY"} |-> "old-key"]]
OtherEntry == [command |-> "npx", hasArgs |-> TRUE, env |-> EmptyMap]

InitDocs ==
  {[mcp |-> "missing", servers |-> EmptyMap, other |-> o] : o \in {"none", "dark"}}
  \cup {[mcp |-> "null", servers |-> EmptyMap, other |-> "dark"]}
  \cup {[mcp |-> "object", servers |-> sv, other |-> o] :
          sv \in {EmptyMap,
                  [k \in {ServerId} |-> OldEntry],
                  [k \in {OtherId} |-> OtherEntry],
                  [k \in {ServerId, OtherId} |->
                     IF k = ServerId THEN OldEntry ELSE OtherEntry]},
          o \in {"none", "dark"}}

CfgInit ==
  /\ cfgDir \in BOOLEAN
  /\ cfgFile \in IF cfgDir
                   THEN {AbsentFile, MalformedFile} \cup {JsonFile(d) : d \in InitDocs}
                   ELSE {AbsentFile}
  /\ lastCall = NoCall

\* the configuration file is not touched while another subsystem is studied
CfgIdle ==
  /\ cfgDir = FALSE
  /\ cfgFile = AbsentFile
  /\ lastCall = NoCall

\* updateClaudeConfig(plugin, serverPath, apiKey)
UpdateClaudeConfig ==
  \E serverPath \in ServerPaths, apiKey \in ApiKeys,
     customCommand \in CustomCommands, customHost \in CustomHosts,
     customEnvVars \in CustomEnvVarSets,
     mkdirOk \in (IF cfgDir THEN {TRUE} ELSE BOOLEAN) :
    \E readOutcome \in (IF mkdirOk THEN ReadOutcomes ELSE {"ok"}) :
      LET settings == [customCommand |-> customCommand, customHost |-> customHost,
                       customEnvVars |-> customEnvVars]
          read   == ReadConfig(cfgFile, readOutcome)
          entry  == BuildEntry(serverPath, apiKey, settings)
          config == Upsert(read.config, entry)
          text   == Stringify(config)
          writes == mkdirOk /\ read.err \in {"none", "ENOENT"}
      IN \E writeOutcome \in (IF writes THEN WriteOutcomes ELSE {"ok"}) :
           /\ cfgDir' = (cfgDir \/ mkdirOk)
           /\ cfgFile' = IF writes THEN WriteFile(cfgFile, text, writeOutcome)
                                   ELSE cfgFile
           /\ lastCall' =
                [op |-> "update", serverPath |-> serverPath, apiKey |-> apiKey,
                 settings |-> settings, entry |-> entry,
                 readErr |-> IF mkdirOk THEN read.err ELSE "none",
                 result |-> IF writes /\ writeOutcome = "ok" THEN "ok" ELSE "error",
                 wrote |-> writes,
                 pre |-> cfgFile,
                 target |-> IF writes THEN JsonFile(text) ELSE cfgFile,
                 repeated |-> /\ lastCall.op = "update"
                              /\ lastCall.result = "ok"
                              /\ lastCall.serverPath = serverPath
                              /\ lastCall.apiKey = apiKey
                              /\ lastCall.settings = settings]
           /\ UNCHANGED notCfg

\* removeFromClaudeConfig()
RemoveFromClaudeConfig ==
  \E readOutcome \in ReadOutcomes :
    LET read   == ReadConfig(cfgFile, readOutcome)
        writes == read.err = "none" /\ HasEntry(read.config)
        text   == Stringify(RemoveEntry(read.config))
    IN \E writeOutcome \in (IF writes THEN WriteOutcomes ELSE {"ok"}) :
         /\ cfgFile' = IF writes THEN WriteFile(cfgFile, text, writeOutcome)
                                 ELSE cfgFile
         /\ lastCall' =
              [NoCall EXCEPT
                 !.op = "remove",
                 !.readErr = read.err,
                 !.result = IF \/ read.err = "ENOENT"
                               \/ read.err = "none" /\ ~writes
                               \/ writes /\ writeOutcome = "ok"
                              THEN "ok" ELSE "error",
                 !.wrote = writes,
                 !.pre = cfgFile,
                 !.target = IF writes THEN JsonFile(text) ELSE cfgFile]
         /\ UNCHANGED <<cfgDir, notCfg>>

CfgNext == UpdateClaudeConfig \/ RemoveFromClaudeConfig


\* ------------------------------------------------------------------ properties of the configuration file
Called == lastCall.op # "none"

\* C2: at every point the file holds the complete document it held before the
\* last call or the complete document that call set out to write.
ConfigNeverCorrupt ==
  Called => (cfgFile = lastCall.pre \/ cfgFile = lastCall.target)

\* C6: after a successful updateClaudeConfig the file is a JSON document in
\* which our entry reads back as the upserted { command, env } (same command,
\* no args, every env key reading the same value), and every other server
\* entry and every other key is as it was before the call.
UpsertRoundTrip ==
  (lastCall.op = "update" /\ lastCall.result = "ok") =>
    /\ cfgFile.kind = "json"
    /\ cfgFile.doc.mcp = "object"
    /\ ServerId \in DOMAIN cfgFile.doc.servers
    /\ cfgFile.doc.servers[ServerId].command = lastCall.entry.command
    /\ ~cfgFile.doc.servers[ServerId].hasArgs
    /\ \A k \in EnvKeys :
         Get(cfgFile.doc.servers[ServerId].env, k) = Get(lastCall.entry.env, k)
    /\ DOMAIN cfgFile.doc.servers \ {ServerId}
         = (IF lastCall.pre.kind = "json" THEN DOMAIN lastCall.pre.doc.servers ELSE {})
           \ {ServerId}
    /\ \A id \in DOMAIN cfgFile.doc.servers \ {ServerId} :
         cfgFile.doc.servers[id] = lastCall.pre.doc.servers[id]
    /\ cfgFile.doc.other = (IF lastCall.pre.kind = "json"
                              THEN lastCall.pre.doc.other ELSE "none")

\* C6 witness: a successful update of a document that had an older entry of
\* ours, another server and another top-level key, with an undefined API key.
UpsertOverExisting ==
  /\ lastCall.op = "update" /\ lastCall.result = "ok"
  /\ lastCall.pre.kind = "json"
  /\ DOMAIN lastCall.pre.doc.servers = {ServerId, OtherId}
  /\ lastCall.pre.doc.other = "dark"
  /\ lastCall.apiKey = Undefined

\* C7: when the file is not valid JSON, or reading it fails otherwise than by
\* the file being absent, the call fails and the file is left as it was.
UnreadableConfigUntouched ==
  (Called /\ ( \/ lastCall.readErr \in {"EACCES", "SyntaxError"}
               \/ lastCall.pre.kind \in {"malformed", "truncated"} )) =>
    /\ lastCall.result = "error"
    /\ ~lastCall.wrote
    /\ cfgFile = lastCall.pre

\* C7 witness: each of the two calls has met unparsable content.
MalformedConfigMet ==
  /\ lastCall.op \in {"update", "remove"}
  /\ lastCall.pre.kind = "malformed"
  /\ lastCall.readErr = "SyntaxError"

\* C8: a successful removeFromClaudeConfig leaves the document as it was but
\* for our entry, which is gone; on a missing file it succeeds and creates
\* nothing; when our entry is missing it succeeds and the file is unchanged.
RemoveOnlyOurEntry ==
  (lastCall.op = "remove") =>
    /\ (lastCall.pre.kind = "absent" /\ lastCall.readErr # "EACCES") =>
         (lastCall.result = "ok" /\ cfgFile = AbsentFile)
    /\ (lastCall.pre.kind = "json" /\ lastCall.readErr # "EACCES"
          /\ ServerId \notin DOMAIN lastCall.pre.doc.servers) =>
         (lastCall.result = "ok" /\ cfgFile = lastCall.pre)
    /\ (lastCall.result = "ok" /\ lastCall.pre.kind = "json") =>
         /\ cfgFile.kind = "json"
         /\ cfgFile.doc.mcp = lastCall.pre.doc.mcp
         /\ cfgFile.doc.other = lastCall.pre.doc.other
         /\ DOMAIN cfgFile.doc.servers = DOMAIN lastCall.pre.doc.servers \ {ServerId}
         /\ \A id \in DOMAIN cfgFile.doc.servers :
              cfgFile.doc.servers[id] = lastCall.pre.doc.servers[id]

\* C8 witness: our entry was removed from a document that also had another
\* server and another key.
RemovedAmongOthers ==
  /\ lastCall.op = "remove" /\ lastCall.result = "ok" /\ lastCall.wrote
  /\ DOMAIN lastCall.pre.doc.servers = {ServerId, OtherId}
  /\ lastCall.pre.doc.other = "dark"

\* C9: an updateClaudeConfig that succeeds right after a successful
\* updateClaudeConfig with the same arguments and settings leaves the file as
\* the first one wrote it.
UpsertIdempotent ==
  (lastCall.op = "update" /\ lastCall.result = "ok" /\ lastCall.repeated) =>
    cfgFile = lastCall.pre

\* C9 witness: the repeated update, with custom settings and an undefined key.
UpsertRepeated ==
  /\ lastCall.op = "update" /\ lastCall.result = "ok" /\ lastCall.repeated
  /\ lastCall.apiKey = Undefined
  /\ Truthy(lastCall.settings.customHost)
  /\ OtherId \in DOMAIN cfgFile.doc.servers

\* C26: the entry a successful updateClaudeConfig writes has command =
\* customCommand when that is set and the server path otherwise, OBSIDIAN_HOST
\* = customHost when that is set (and customEnvVars does not name the key),
\* and every key of customEnvVars with the user's value, also when the key is
\* OBSIDIAN_API_KEY or OBSIDIAN_HOST.
CustomSettingsApplied ==
  (lastCall.op = "update" /\ lastCall.result = "ok") =>
    LET e == cfgFile.doc.servers[ServerId]
        s == lastCall.settings
    IN /\ s.customCommand \notin {Undefined, ""} => e.command = s.customCommand
       /\ s.customCommand \in {Undefined, ""} => e.command = lastCall.serverPath
       /\ (s.customHost \notin {Undefined, ""}
             /\ "OBSIDIAN_HOST" \notin DOMAIN s.customEnvVars) =>
            Get(e.env, "OBSIDIAN_HOST") = s.customHost
       /\ \A k \in DOMAIN s.customEnvVars : Get(e.env, k) = s.customEnvVars[k]

\* C26 witness: customEnvVars names OBSIDIAN_HOST while customHost is set, and
\* names OBSIDIAN_API_KEY while an API key is passed.
CustomEnvCollides ==
  /\ lastCall.op = "update" /\ lastCall.result = "ok"
  /\ \/ /\ "OBSIDIAN_HOST" \in DOMAIN lastCall.settings.customEnvVars
        /\ lastCall.settings.customHost = "https://host:27124"
        /\ lastCall.settings.customCommand = "wsl.exe"
        /\ cfgFile.doc.servers[ServerId].env["OBSIDIAN_HOST"] = "https://user-host:27124"
     \/ /\ "OBSIDIAN_API_KEY" \in DOMAIN lastCall.settings.customEnvVars
        /\ lastCall.apiKey = "key"
        /\ cfgFile.doc.servers[ServerId].env["OBSIDIAN_API_KEY"] = "user-key"

\* ------------------------------------------------------------------ getInstallationStatus
\* a version string: a semantic version, bare or prefixed with "v", or text
\* that is no version
\* <<major, minor, patch, prerelease tag>>, the tag "" for a release
NoVersion == <<>>
Versions == {<<0, 2, 26, "">>, <<0, 2, 27, "beta">>, <<0, 2, 27, "">>, <<0, 3, 0, "">>}
VersionStrings ==
  {[form |-> f, v |-> v] : f \in {"plain", "v"}, v \in Versions}
  \cup {[form |-> "garbage", v |-> NoVersion]}
StdoutStrings == VersionStrings \cup {[form |-> "empty", v |-> NoVersion]}

\* semver coerce(): some version out of any text
CleanCoerce(str) == IF str.form \in {"plain", "v"} THEN str.v ELSE <<0, 0, 0, "">>

\* semver clean(): the version without its prefix, or null
Clean(str) == IF str.form \in {"plain", "v"} THEN str.v ELSE NoVersion

\* semver valid(): the version, or null
Valid(v) == v

\* a comparison of major.minor.patch alone
LtNoPrerelease(a, b) ==
  \/ a[1] < b[1]
  \/ a[1] = b[1] /\ a[2] < b[2]
  \/ a[1] = b[1] /\ a[2] = b[2] /\ a[3] < b[3]

\* semver lt(a, b): compareMain, then comparePre (a prerelease is lower than
\* its release; the model has one prerelease tag)
Lt(a, b) ==
  \/ a[1] < b[1]
  \/ a[1] = b[1] /\ a[2] < b[2]
  \/ a[1] = b[1] /\ a[2] = b[2] /\ a[3] < b[3]
  \/ a[1] = b[1] /\ a[2] = b[2] /\ a[3] = b[3] /\ a[4] # "" /\ b[4] = ""

\* execAsync(versionCommand) is given no options: child_process.exec runs with
\* its default timeout of 0, which never cuts the child off
ExecTimeout == 0

\* McpToolsPlugin.getLocalRestApiKey, an async method: the call returns a
\* Promise of the stored key
GetLocalRestApiKey(stored) == [isPromise |-> TRUE, value |-> stored]

\* `!x` is false for every object, a Promise included
JsTruthy(x) == x.isPromise \/ Truthy(x.value)

StInputs ==
  [manifestVersion : VersionStrings,
   storedKey       : {Undefined, "", "key"},
   adapterOk       : BOOLEAN,
   realpath        : {"ok", "throws"},
   binary          : {"absent", "notExecutable", "executable"},
   exec            : {"exit0", "nonzero", "hangs"},
   stdout          : StdoutStrings]

NoResult == [outcome |-> "none", state |-> "none",
             plugin |-> NoVersion, server |-> NoVersion]
Resolved(state, pv, sv) == [outcome |-> "resolved", state |-> state,
                            plugin |-> pv, server |-> sv]

StInit ==
  /\ stInput \in StInputs
  /\ stPc = "version"
  /\ stTouched = {}
  /\ stResult = NoResult

\* no status query runs while another subsystem is studied
StIdle ==
  /\ stInput = [manifestVersion |-> [form |-> "plain", v |-> <<0, 2, 27, "">>],
                storedKey |-> "key", adapterOk |-> TRUE, realpath |-> "ok",
                binary |-> "absent", exec |-> "exit0",
                stdout |-> [form |-> "empty", v |-> NoVersion]]
  /\ stPc = "idle"
  /\ stTouched = {}
  /\ stResult = NoResult

PluginVersion == Valid(Clean(stInput.manifestVersion))

Return(r) == /\ stResult' = r
             /\ stPc' = "done"

Continue(pc) == /\ stPc' = pc
                /\ UNCHANGED stResult

Touch(what) == stTouched' = stTouched \cup what

\* const pluginVersion = valid(clean(plugin.manifest.version))
StVersion ==
  /\ stPc = "version"
  /\ IF PluginVersion = NoVersion
       THEN Return(Resolved("error", NoVersion, NoVersion))
       ELSE Continue("key")
  /\ UNCHANGED <<stInput, stTouched, notSt>>

\* const apiKey = plugin.getLocalRestApiKey(); if (!apiKey) ...
StApiKey ==
  /\ stPc = "key"
  /\ LET apiKey == GetLocalRestApiKey(stInput.storedKey)
     IN IF ~JsTruthy(apiKey)
          THEN Return(Resolved("no api key", PluginVersion, NoVersion))
          ELSE Continue("path")
  /\ Touch({"key"})
  /\ UNCHANGED <<stInput, notSt>>

\* const installPath = await getInstallPath(plugin)
StInstallPath ==
  /\ stPc = "path"
  /\ CASE ~stInput.adapterOk ->
            Return(Resolved("error", PluginVersion, NoVersion))
       [] stInput.realpath = "throws" ->
            Return([NoResult EXCEPT !.outcome = "rejected"])
       [] OTHER -> Continue("access")
  /\ Touch(IF stInput.adapterOk THEN {"adapter", "realpath"} ELSE {"adapter"})
  /\ UNCHANGED <<stInput, notSt>>

\* await fsp.access(installPath.path, fsp.constants.X_OK)
StAccess ==
  /\ stPc = "access"
  /\ IF stInput.binary # "executable"
       THEN Return(Resolved("not installed", PluginVersion, NoVersion))
       ELSE Continue("exec")
  /\ Touch({"access"})
  /\ UNCHANGED <<stInput, notSt>>

\* const { stdout } = await execAsync(`"${installPath.path}" --version`): the
\* promise settles when the child exits, or when a timeout kills it
StExec ==
  /\ stPc = "exec"
  /\ stInput.exec # "hangs" \/ ExecTimeout > 0
  /\ LET serverVersion == Clean(stInput.stdout)
     IN CASE stInput.exec \in {"nonzero", "hangs"} \/ serverVersion = NoVersion ->
               Return(Resolved("error", PluginVersion, NoVersion))
          [] OTHER ->
               Return(Resolved(IF Lt(serverVersion, PluginVersion)
                                 THEN "outdated" ELSE "installed",
                               PluginVersion, serverVersion))
  /\ Touch({"exec"})
  /\ UNCHANGED <<stInput, notSt>>

StNext == StVersion \/ StApiKey \/ StInstallPath \/ StAccess \/ StExec

\* C10: with a valid plugin version and no Local REST API key available, the
\* status returned is "no api key".
NoApiKeyReported ==
  (stResult.outcome = "resolved" /\ PluginVersion # NoVersion
     /\ ~Truthy(stInput.storedKey)) =>
    stResult.state = "no api key"

\* the states of InstallationStatus
InstallationStates == {"no api key", "not installed", "installed", "outdated", "error"}

\* C11: a finished getInstallationStatus call has returned a status whose state
\* is one of the five states; it has never rejected with a raw error.
StatusClassified ==
  stPc = "done" =>
    /\ stResult.outcome = "resolved"
    /\ stResult.state \in InstallationStates

\* C12: the version query is bounded in time: a call waiting for the installed
\* binary can always go on to return, whatever the binary does.
VersionQueryReturns == stPc = "exec" => ENABLED StExec

\* C13: with a valid plugin version, a key and a resolved install path, a binary
\* that is absent or not executable gives "not installed"; an executable binary
\* whose version query exits non-zero, times out or prints no version gives
\* "error", so such a query always ends and never reports "not installed".
BinaryProbeClassified ==
  (PluginVersion # NoVersion /\ Truthy(stInput.storedKey)) =>
    /\ (stPc = "done" /\ "access" \in stTouched /\ stInput.binary # "executable") =>
         (stResult.outcome = "resolved" /\ stResult.state = "not installed")
    /\ (stPc = "done" /\ "exec" \in stTouched
          /\ (stInput.exec # "exit0" \/ stInput.stdout.form \notin {"plain", "v"})) =>
         (stResult.outcome = "resolved" /\ stResult.state = "error")
    /\ (stPc = "exec" /\ stInput.exec = "hangs") => ENABLED StNext

\* C14: with a valid plugin version p, a key and a binary that reports a valid
\* version s, the state is "outdated" exactly when s is below p in
\* semantic-version order and "installed" exactly when s is equal or above, and
\* the status carries both p and s.
VersionOrderDecides ==
  LET Rank(v) == ((v[1] * 100 + v[2]) * 100 + v[3]) * 2 + (IF v[4] = "" THEN 1 ELSE 0)
      p == stInput.manifestVersion.v
      s == stInput.stdout.v
  IN (/\ stPc = "done" /\ "exec" \in stTouched
      /\ stInput.manifestVersion.form \in {"plain", "v"}
      /\ Truthy(stInput.storedKey)
      /\ stInput.exec = "exit0" /\ stInput.stdout.form \in {"plain", "v"}) =>
       /\ stResult.outcome = "resolved"
       /\ stResult.state = "outdated" <=> Rank(s) < Rank(p)
       /\ stResult.state = "installed" <=> Rank(s) >= Rank(p)
       /\ stResult.plugin = p /\ stResult.server = s

\* a prerelease of the plugin's own version was reported, and found outdated
PrereleaseCompared ==
  /\ stPc = "done" /\ stResult.state = "outdated"
  /\ stInput.stdout = [form |-> "v", v |-> <<0, 2, 27, "beta">>]
  /\ stInput.manifestVersion.v = <<0, 2, 27, "">>
  /\ stResult.server = <<0, 2, 27, "beta">>

\* C15: a malformed plugin version gives the state "error" whatever the key, the
\* install path and the binary are, before any key lookup, filesystem access or
\* subprocess.
MalformedVersionFatal ==
  (stInput.manifestVersion.form = "garbage" /\ stPc # "version") =>
    /\ stPc = "done"
    /\ stResult.outcome = "resolved" /\ stResult.state = "error"
    /\ stTouched = {}

MalformedVersionMet ==
  /\ stInput.manifestVersion.form = "garbage" /\ stPc = "done"
  /\ stInput.storedKey = "key" /\ stInput.binary = "executable"
  /\ stInput.exec = "exit0" /\ stInput.stdout.form = "plain"

\* ------------------------------------------------------------------ normalizeDuplicateSegments
\* A path is a sequence of tokens: Sep stands for path.sep of the platform, "C:"
\* for a drive prefix, the others for name characters. A segment is the run of
\* tokens between two separators.
Sep == "/"
NameChars == {"a", "b"}
Drive == "C:"

\* the paths of at most maxLen tokens
Paths(maxLen) ==
  UNION {[1..n -> NameChars \cup {Sep}] : n \in 0..maxLen}

\* a drive prefix is met on Windows only
NpInputs(maxLen) ==
  {[platform |-> "posix", path |-> p] : p \in Paths(maxLen)}
  \cup {[platform |-> "win32", path |-> d \o p] :
          d \in {<<>>, <<Drive>>}, p \in Paths(maxLen)}

\* String.prototype.split(path.sep): one part more than there are separators
RECURSIVE Split(_)
Split(str) ==
  IF \A i \in 1..Len(str) : str[i] # Sep
    THEN <<str>>
    ELSE LET k == CHOOSE i \in 1..Len(str) :
                    str[i] = Sep /\ \A j \in 1..(i - 1) : str[j] # Sep
         IN <<SubSeq(str, 1, k - 1)>> \o Split(SubSeq(str, k + 1, Len(str)))

\* Array.prototype.join(path.sep)
RECURSIVE Join(_)
Join(parts) ==
  IF parts = <<>> THEN <<>>
  ELSE IF Len(parts) = 1 THEN parts[1]
  ELSE parts[1] \o <<Sep>> \o Join(Tail(parts))

\* path.isAbsolute: a leading separator; on Windows also drive, colon, separator
IsAbsolute(platform, str) ==
  \/ Len(str) >= 1 /\ str[1] = Sep
  \/ platform = "win32" /\ Len(str) >= 2 /\ str[1] = Drive /\ str[2] = Sep

\* filepath.split(path.sep).filter(p => p !== "")
Parts(str) == SelectSeq(Split(str), LAMBDA part : part # <<>>)

\* the outer while loop from index i on (1-based): the shortest pattern at i that
\* is followed by its copy is skipped, otherwise parts[i] is kept
RECURSIVE Scan(_, _, _)
Scan(parts, i, normalized) ==
  IF i > Len(parts) THEN normalized
  ELSE LET found == {len \in 1..((Len(parts) - i + 1) \div 2) :
                       SubSeq(parts, i, i + len - 1)
                         = SubSeq(parts, i + len, i + 2 * len - 1)}
           patternLength == CHOOSE len \in found : \A m \in found : len <= m
       IN IF found # {}
            THEN Scan(parts, i + patternLength, normalized)
            ELSE Scan(parts, i + 1, Append(normalized, parts[i]))

NormalizeDuplicateSegments(platform, filepath) ==
  LET result == Join(Scan(Parts(filepath), 1, <<>>))
  IN IF IsAbsolute(platform, filepath) THEN <<Sep>> \o result ELSE result

NpInit ==
  /\ npInput \in NpInputs(MaxPathLen)
  /\ npPc = "call"
  /\ npResult = <<>>

\* no path is normalized while another subsystem is studied
NpIdle ==
  /\ npInput = [platform |-> "posix", path |-> <<>>]
  /\ npPc = "idle"
  /\ npResult = <<>>

\* const normalizedDirPath = normalizeDuplicateSegments(realDirPath)
NpNormalize ==
  /\ npPc = "call"
  /\ npResult' = NormalizeDuplicateSegments(npInput.platform, npInput.path)
  /\ npPc' = "done"
  /\ UNCHANGED <<npInput, notNp>>

NpNext == NpNormalize

\* the blocks of one or more segments immediately followed by an identical
\* block: <<i, len>> for segs[i .. i+len-1] = segs[i+len .. i+2*len-1]
DuplicateBlocks(segs) ==
  {b \in (1..Len(segs)) \X (1..Len(segs)) :
     /\ b[1] + 2 * b[2] - 1 <= Len(segs)
     /\ SubSeq(segs, b[1], b[1] + b[2] - 1)
          = SubSeq(segs, b[1] + b[2], b[1] + 2 * b[2] - 1)}

\* the path written from its segments, rooted as str is
Rewritten(str, segs) ==
  (IF Len(str) >= 1 /\ str[1] = Sep THEN <<Sep>> ELSE <<>>) \o Join(segs)

\* C16: for all segment sequences prefix, B (non-empty) and suffix, the collapse
\* of prefix + B + B + suffix is the collapse of prefix + B + suffix.
CollapseAbsorbsRepeat ==
  npPc = "done" =>
    LET segs == Parts(npInput.path)
    IN \A b \in DuplicateBlocks(segs) :
         LET once == SubSeq(segs, 1, b[1] - 1)
                       \o SubSeq(segs, b[1] + b[2], Len(segs))
         IN NormalizeDuplicateSegments(npInput.platform, Rewritten(npInput.path, once))
              = npResult

\* C17: the collapsed path has no block of one or more segments that is
\* immediately followed by an identical block.
NoDuplicateBlockLeft ==
  npPc = "done" => DuplicateBlocks(Parts(npResult)) = {}

\* C18: a path without a duplicate block (written without empty segments) is
\* returned unchanged, absolute staying absolute and relative staying relative;
\* the root yields the root and the empty path the empty path.
DuplicateFreeUnchanged ==
  (/\ npPc = "done"
   /\ DuplicateBlocks(Parts(npInput.path)) = {}
   /\ npInput.path = Rewritten(npInput.path, Parts(npInput.path))) =>
    /\ npResult = npInput.path
    /\ IsAbsolute(npInput.platform, npResult)
         <=> IsAbsolute(npInput.platform, npInput.path)

\* ------------------------------------------------------------------ resolveSymlinks
\* The nominal install directory /vault/plugins/bin on POSIX. The first
\* `depth` components exist; /vault may be a symbolic link to /real.
InstallDirSegs == <<<<"vault">>, <<"plugins">>, <<"bin">>>>
InstallDir == Rewritten(<<Sep>>, InstallDirSegs)

RsFileSystems == [depth : 0..Len(InstallDirSegs), link : BOOLEAN, cwdIsRoot : BOOLEAN]

\* the errors fsp.realpath can fail with whatever is on the disk
Faults == {"none", "EACCES"}

Tree(fs) == IF fs.link THEN <<<<"real">>>> \o Tail(InstallDirSegs) ELSE InstallDirSegs

Failed(code) == [ok |-> FALSE, path |-> <<>>, code |-> code]

\* fsp.realpath(p): a relative path is taken from the working directory
Realpath(fs, p, fault) ==
  LET abs == IF IsAbsolute("posix", p) THEN p
             ELSE IF fs.cwdIsRoot THEN <<Sep>> \o p
             ELSE <<Sep, "cwd", Sep>> \o p
      given == Parts(abs)
      segs == IF fs.link /\ given # <<>> /\ Head(given) = <<"vault">>
                THEN <<<<"real">>>> \o Tail(given) ELSE given
  IN IF fault # "none" THEN Failed(fault)
     ELSE IF Len(segs) <= fs.depth /\ segs = SubSeq(Tree(fs), 1, Len(segs))
       THEN [ok |-> TRUE, path |-> Rewritten(<<Sep>>, segs), code |-> "none"]
       ELSE Failed("ENOENT")

\* path.join(...args): the non-empty arguments joined by path.sep, normalized
PathJoin(args) ==
  LET joined == Join(SelectSeq(args, LAMBDA arg : arg # <<>>))
  IN Rewritten(joined, Parts(joined))

\* the root handling before the loop: <<resolvedParts, skipCount>>. The test
\* path.win32.isAbsolute comes first and is true of every path with a leading
\* separator, a POSIX one included
RootParts(filepath, parts) ==
  IF IsAbsolute("win32", filepath)
    THEN IF Len(parts) >= 2 /\ parts[2] = <<>>
           THEN <<<<parts[1], <<>>>>, 2>>
           ELSE <<<<parts[1]>>, 1>>
  ELSE IF IsAbsolute("posix", filepath) THEN <<<<<<Sep>>>>, 1>>
  ELSE <<<<parts[1]>>, 1>>

RsInit ==
  /\ rsFs \in RsFileSystems
  /\ rsPc = "start"
  /\ rsTodo = <<>>
  /\ rsResolved = <<>>
  /\ rsCaught = {}
  /\ rsResult = <<>>

\* no path is resolved while another subsystem is studied
RsIdle ==
  /\ rsFs = [depth |-> 0, link |-> FALSE, cwdIsRoot |-> TRUE]
  /\ rsPc = "idle"
  /\ rsTodo = <<>>
  /\ rsResolved = <<>>
  /\ rsCaught = {}
  /\ rsResult = <<>>

\* try { return await fsp.realpath(filepath) } catch: ENOENT starts the walk,
\* another error is rethrown
RsRealpath ==
  /\ rsPc = "start"
  /\ \E fault \in Faults :
       LET r == Realpath(rsFs, InstallDir, fault)
           parts == Split(InstallDir)
           root == RootParts(InstallDir, parts)
       IN CASE r.ok ->
                 /\ rsResult' = r.path /\ rsPc' = "returned"
                 /\ UNCHANGED <<rsTodo, rsResolved>>
            [] r.code = "ENOENT" ->
                 /\ rsResolved' = root[1]
                 /\ rsTodo' = SubSeq(parts, root[2] + 1, Len(parts))
                 /\ rsPc' = "walk"
                 /\ UNCHANGED rsResult
            [] OTHER ->
                 /\ rsPc' = "threw"
                 /\ UNCHANGED <<rsTodo, rsResolved, rsResult>>
  /\ UNCHANGED <<rsFs, rsCaught, notRs>>

\* one iteration of `for (const part of parts.slice(skipCount))`
RsWalkStep ==
  /\ rsPc = "walk" /\ rsTodo # <<>>
  /\ \E fault \in Faults :
       LET part == Head(rsTodo)
           partialPath == PathJoin(Append(rsResolved, part))
           r == Realpath(rsFs, partialPath, fault)
       IN IF r.ok
            THEN /\ rsResolved' = Split(r.path)
                 /\ UNCHANGED rsCaught
            ELSE \* catch (err) { resolvedParts.push(part) }
                 /\ rsResolved' = Append(rsResolved, part)
                 /\ rsCaught' = rsCaught \cup {r.code}
  /\ rsTodo' = Tail(rsTodo)
  /\ UNCHANGED <<rsFs, rsPc, rsResult, notRs>>

\* return path.join(...resolvedParts)
RsReturn ==
  /\ rsPc = "walk" /\ rsTodo = <<>>
  /\ rsResult' = PathJoin(rsResolved)
  /\ rsPc' = "returned"
  /\ UNCHANGED <<rsFs, rsTodo, rsResolved, rsCaught, notRs>>

RsNext == RsRealpath \/ RsWalkStep \/ RsReturn

\* C19: in the walk of an install path that does not exist yet, only "not
\* found" makes the walk append the component and go on; any other filesystem
\* error is fatal, so a call that has returned a path met "not found" only.
WalkErrorsFatal ==
  rsPc = "returned" => rsCaught \subseteq {"ENOENT"}

\* the real path of the longest existing prefix of the install directory
\* followed by the components that do not exist, as given
PrefixThenVerbatim(fs) ==
  Rewritten(<<Sep>>, SubSeq(Tree(fs), 1, fs.depth)
                       \o SubSeq(InstallDirSegs, fs.depth + 1, Len(InstallDirSegs)))

\* C36: when the install path does not fully exist, the path returned is the
\* real path of its longest existing prefix followed by the remaining
\* components as given.
LongestPrefixResolved ==
  (rsPc = "returned" /\ rsCaught \subseteq {"ENOENT"}) =>
    rsResult = PrefixThenVerbatim(rsFs)

\* ------------------------------------------------------------------ removeDuplicatePathSegments
\* the for loop from index i on (1-based): empty parts after the first are
\* skipped; a part that starts a copy of the last len kept parts, for the
\* smallest such len, is skipped with that copy; otherwise the part is kept
RECURSIVE RemoveScan(_, _, _)
RemoveScan(parts, i, normalized) ==
  IF i > Len(parts) THEN normalized
  ELSE IF parts[i] = <<>> /\ i # 1 THEN RemoveScan(parts, i + 1, normalized)
  ELSE LET n == Len(normalized)
           rest == Len(parts) - i + 1
           lookAhead == IF n < rest THEN n ELSE rest
           found == IF i > 1 /\ parts[i] # <<>>
                      THEN {len \in 1..lookAhead :
                              SubSeq(normalized, n - len + 1, n)
                                = SubSeq(parts, i, i + len - 1)}
                      ELSE {}
           len == CHOOSE l \in found : \A m \in found : l <= m
       IN IF found # {}
            THEN RemoveScan(parts, i + len, normalized)
            ELSE RemoveScan(parts, i + 1, Append(normalized, parts[i]))

\* removeDuplicatePathSegments(filepath), with path.sep = "/"
RemoveDuplicatePathSegments(filepath) ==
  LET normalized == RemoveScan(Split(filepath), 1, <<>>)
      result == PathJoin(normalized)
  IN IF normalized = <<>> \/ normalized = <<<<>>>> THEN <<Sep>>
     ELSE IF normalized[1] = <<>> /\ (result = <<>> \/ result[1] # Sep)
       THEN <<Sep>> \o result
     ELSE result

\* C39: for every absolute POSIX path removeDuplicatePathSegments and
\* normalizeDuplicateSegments return the same path.
CollapseRoutinesAgree ==
  (/\ npPc = "done" /\ npInput.platform = "posix"
   /\ IsAbsolute("posix", npInput.path)) =>
    npResult = RemoveDuplicatePathSegments(npInput.path)

\* ------------------------------------------------------------------ the https.get callback alone
RpInit ==
  /\ rpInput \in [status : Statuses, hasLocation : BOOLEAN,
                   contentLength : ContentLengths(MaxHeaderLen), openThrows : BOOLEAN]
  /\ rpPc = "callback"
  /\ rpOut = "none"

\* no response is looked at while another subsystem is studied
RpIdle ==
  /\ rpInput = [status |-> 200, hasLocation |-> FALSE,
                contentLength |-> NoHeader, openThrows |-> FALSE]
  /\ rpPc = "idle"
  /\ rpOut = "none"

\* the callback from `const statusCode` to fs.createWriteStream
RpCallback ==
  /\ rpPc = "callback"
  /\ rpOut' = ResponseOutcome(rpInput.status, rpInput.hasLocation,
                              rpInput.contentLength, rpInput.openThrows)
  /\ rpPc' = "done"
  /\ UNCHANGED <<rpInput, notRp>>

RpNext == RpCallback

TotalBytes(h) == IF HeaderTruthy(h) THEN ParseInt(h.text).value ELSE 0

\* the quotient cut off instead of rounded
MathFloor(num, den) == num \div den

\* Math.round of the quotient num / den of two naturals
MathRound(num, den) == (2 * num + den) \div (2 * den)

\* the DownloadProgress of the "data" handler; percentage is kept in hundredths
\* of a percent: Math.round((downloadedBytes / totalBytes) * 100 * 100) / 100
DownloadProgress(downloadedBytes, totalBytes) ==
  [bytesReceived |-> downloadedBytes,
   totalBytes    |-> totalBytes,
   percentage    |-> IF totalBytes # 0
                       THEN MathRound(downloadedBytes * 10000, totalBytes)
                       ELSE 0]

\* the handler is installed for the responses that pass the callback's checks
PgInit ==
  /\ pgHeader \in {h \in ContentLengths(MaxHeaderLen) :
                     ResponseOutcome(200, FALSE, h, FALSE) = "ok"}
  /\ pgPc = "streaming"
  /\ pgDownloaded = 0
  /\ pgChunks = <<>>
  /\ pgEvents = <<>>

\* no response is streamed while another subsystem is studied
PgIdle ==
  /\ pgHeader = NoHeader
  /\ pgPc = "idle"
  /\ pgDownloaded = 0
  /\ pgChunks = <<>>
  /\ pgEvents = <<>>

\* response.on("data", (chunk) => ...): downloadedBytes += chunk.length and
\* subscriber.next, or cleanup(err) and subscriber.error for a non-Buffer chunk
PgData ==
  /\ pgPc = "streaming"
  /\ Len(pgChunks) < MaxChunks
  /\ \E isBuffer \in BOOLEAN, length \in 1..MaxChunkSize :
       IF isBuffer
         THEN /\ pgDownloaded' = pgDownloaded + length
              /\ pgChunks' = Append(pgChunks, length)
              /\ pgEvents' = Append(pgEvents,
                                    DownloadProgress(pgDownloaded + length,
                                                     TotalBytes(pgHeader)))
              /\ UNCHANGED pgPc
         ELSE /\ pgPc' = "failed"
              /\ UNCHANGED <<pgDownloaded, pgChunks, pgEvents>>
  /\ UNCHANGED <<pgHeader, notPg>>

PgNext == PgData

\* C22: one progress event per received chunk; bytesReceived is the size of all
\* chunks received so far, totalBytes is the Content-Length or 0 when the header
\* is absent, percentage is 0 when totalBytes is 0 and otherwise
\* bytesReceived / totalBytes * 100 rounded to two decimals (within 0.005).
ProgressPerChunk ==
  LET text == pgHeader.text
      absent == ~pgHeader.present \/ text = <<>>
      numeric == text # <<>> /\ \A i \in 1..Len(text) : text[i] \in DOMAIN DigitValue
      length[i \in 0..Len(text)] ==
        IF i = 0 THEN 0 ELSE length[i - 1] * 10 + DigitValue[text[i]]
      received[k \in 0..Len(pgChunks)] ==
        IF k = 0 THEN 0 ELSE received[k - 1] + pgChunks[k]
  IN (absent \/ numeric) =>
       /\ Len(pgEvents) = Len(pgChunks)
       /\ \A k \in 1..Len(pgEvents) :
            LET e == pgEvents[k]
                diff == e.percentage * e.totalBytes - 10000 * received[k]
            IN /\ e.bytesReceived = received[k]
               /\ e.totalBytes = IF absent THEN 0 ELSE length[Len(text)]
               /\ e.totalBytes = 0 => e.percentage = 0
               /\ e.totalBytes # 0 => /\ 2 * diff <= e.totalBytes
                                      /\ -2 * diff <= e.totalBytes

\* C22 witness: Content-Length 12, chunks of 2 and 3 bytes: 16.67 % and 41.67 %
ProgressRounded ==
  /\ pgHeader.text = <<"1", "2">>
  /\ pgChunks = <<2, 3>>
  /\ pgEvents = <<[bytesReceived |-> 2, totalBytes |-> 12, percentage |-> 1667],
                  [bytesReceived |-> 5, totalBytes |-> 12, percentage |-> 4167]>>

\* ------------------------------------------------------------------ getPlatform, getArch, getDownloadUrl, getInstallPath
\* os.platform() and os.arch() of machines the plugin is run on
DetectedSystems ==
  ({"darwin"} \X {"x64", "arm64"})
  \cup ({"win32"} \X {"x64", "arm64", "ia32"})
  \cup ({"linux"} \X {"x64", "arm64", "arm"})
  \cup ({"freebsd"} \X {"x64"})

PLATFORM_TYPES == {"windows", "macos", "linux"}
ARCH_TYPES == {"x64", "arm64"}

\* the `plugin` argument: absent, without a settings object, or with settings
NoPlugin == [present |-> FALSE, hasSettings |-> FALSE, customPlatform |-> Undefined,
             customArch |-> Undefined, customBinaryPath |-> Undefined]
Plugins ==
  {NoPlugin, [NoPlugin EXCEPT !.present = TRUE]}
  \cup {[present |-> TRUE, hasSettings |-> TRUE, customPlatform |-> cp,
          customArch |-> ca, customBinaryPath |-> cb] :
          cp \in PLATFORM_TYPES \cup {Undefined, ""},
          ca \in ARCH_TYPES \cup {Undefined, ""},
          cb \in {Undefined, "", "/opt/mcp/mcp-server"}}

\* the switch on os.platform() alone
DetectPlatform(plugin, osPlatform) ==
  CASE osPlatform = "darwin" -> "macos"
    [] osPlatform = "win32" -> "windows"
    [] OTHER -> "linux"

GetPlatform(plugin, osPlatform) ==
  IF plugin.present /\ plugin.hasSettings /\ Truthy(plugin.customPlatform)
    THEN plugin.customPlatform
    ELSE DetectPlatform(plugin, osPlatform)

\* `return os.arch() as Arch`: the cast changes nothing at run time
GetArch(plugin, osArch) ==
  IF plugin.present /\ plugin.hasSettings /\ Truthy(plugin.customArch)
    THEN plugin.customArch
    ELSE osArch

\* the file name at the end of the URL, as <<name>> or <<prefix, arch>>
GetDownloadUrl(platform, arch) ==
  IF platform = "windows" THEN <<"mcp-server-windows.exe">>
  ELSE IF platform = "macos" THEN <<"mcp-server-macos-", arch>>
  ELSE <<"mcp-server-linux">>

BINARY_NAME == [windows |-> "mcp-server.exe", macos |-> "mcp-server",
                linux |-> "mcp-server"]

\* the install path for a given value of getInstallPath's local `platform`
InstallPathFor(platform) ==
  LET name == BINARY_NAME[platform]
  IN [platform |-> platform,
      dir |-> "<vault>/<configDir>/plugins/<id>/bin", name |-> name,
      path |-> IF name = "mcp-server.exe"
                 THEN "<vault>/<configDir>/plugins/<id>/bin/mcp-server.exe"
                 ELSE "<vault>/<configDir>/plugins/<id>/bin/mcp-server"]

\* a getInstallPath that calls getPlatform() without the plugin
GetInstallPathDetected(plugin, osPlatform) ==
  InstallPathFor(GetPlatform(NoPlugin, osPlatform))

\* getInstallPath: <vault>/<configDir>/plugins/<id>/bin and BINARY_NAME; no
\* setting other than customPlatform is read
GetInstallPath(plugin, osPlatform) ==
  InstallPathFor(GetPlatform(plugin, osPlatform))

NoResolution == [platform |-> "none", arch |-> "none", downloadUrl |-> <<>>,
                 installPath |-> "none", binary |-> [platform |-> "none", name |-> "none"]]

PlInit ==
  /\ plInput \in [plugin : Plugins, system : DetectedSystems]
  /\ plPc = "call"
  /\ plOut = NoResolution

\* nothing is resolved while another subsystem is studied
PlIdle ==
  /\ plInput = [plugin |-> NoPlugin, system |-> <<"linux", "x64">>]
  /\ plPc = "idle"
  /\ plOut = NoResolution

\* the first statements of installMcpServer: getPlatform, getArch,
\* getDownloadUrl, getInstallPath
PlResolve ==
  /\ plPc = "call"
  /\ LET platform == GetPlatform(plInput.plugin, plInput.system[1])
         arch == GetArch(plInput.plugin, plInput.system[2])
     IN plOut' = [platform |-> platform, arch |-> arch,
                  downloadUrl |-> GetDownloadUrl(platform, arch),
                  installPath |-> GetInstallPath(plInput.plugin, plInput.system[1]).path,
                  binary |-> [platform |-> GetInstallPath(plInput.plugin, plInput.system[1]).platform,
                              name |-> GetInstallPath(plInput.plugin, plInput.system[1]).name]]
  /\ plPc' = "done"
  /\ UNCHANGED <<plInput, notPl>>

PlNext == PlResolve

\* C23: getPlatform returns customPlatform whenever it is present and
\* non-empty, whatever system is detected; otherwise darwin gives macos, win32
\* gives windows and every other value linux; it always returns a platform.
PlatformResolved ==
  LET plugin == plInput.plugin
      overridden == /\ plugin.present /\ plugin.hasSettings
                    /\ plugin.customPlatform \notin {Undefined, ""}
  IN plPc = "done" =>
       /\ plOut.platform \in PLATFORM_TYPES
       /\ overridden => plOut.platform = plugin.customPlatform
       /\ ~overridden =>
            /\ plInput.system[1] = "darwin" => plOut.platform = "macos"
            /\ plInput.system[1] = "win32" => plOut.platform = "windows"
            /\ plInput.system[1] \notin {"darwin", "win32"} => plOut.platform = "linux"

\* C23 witness: customPlatform "linux" on Windows (the WSL case), and an
\* unknown system without override
PlatformOverridden ==
  /\ plPc = "done"
  /\ plInput.system[1] = "win32"
  /\ plInput.plugin.customPlatform = "linux"
  /\ plOut.platform = "linux"

\* C24: getArch always returns x64 or arm64.
ArchInEnum == plPc = "done" => plOut.arch \in ARCH_TYPES

\* C25: the download file name is mcp-server-windows.exe for windows,
\* mcp-server-macos-<arch> for macos and mcp-server-linux for linux, and it is
\* one of the four published binaries for every pair the resolvers produce.
DownloadNamePublished ==
  plPc = "done" =>
    /\ plOut.platform = "windows" => plOut.downloadUrl = <<"mcp-server-windows.exe">>
    /\ plOut.platform = "macos" => plOut.downloadUrl = <<"mcp-server-macos-", plOut.arch>>
    /\ plOut.platform = "linux" => plOut.downloadUrl = <<"mcp-server-linux">>
    /\ plOut.downloadUrl \in {<<"mcp-server-windows.exe">>, <<"mcp-server-linux">>,
                               <<"mcp-server-macos-", "x64">>,
                               <<"mcp-server-macos-", "arm64">>}

\* C27: a customBinaryPath that is present is the install path used for the
\* download and for the status check.
CustomBinaryPathUsed ==
  (/\ plPc = "done" /\ plInput.plugin.hasSettings
   /\ plInput.plugin.customBinaryPath \notin {Undefined, ""}) =>
    plOut.installPath = plInput.plugin.customBinaryPath

Absent == [kind |-> "absent", writable |-> FALSE]
DirStates ==
  {Absent} \cup [kind : {"dir", "file"}, writable : BOOLEAN]

\* fsp.mkdir(dirpath, {recursive: true}) on a path that does not exist
MkdirFaults == {"none", "EACCES", "ENOTDIR"}
NotWritableMessage == "Directory exists but is not writable"

\* the environment of one call: the adapter lookup of getInstallPath, the
\* state of the directory, how mkdir ends, whether the directory mkdir makes
\* grants write access, and how the server answers a download
InEnvs ==
  [adapter : {"ok", "error"}, dir : DirStates, mkdir : MkdirFaults,
   createdWritable : BOOLEAN, server : {"ok", "error"}]

\* ensureDirectory(dirpath): the directory afterwards and the error thrown
EnsureDirectory(dir, mkdirFault, createdWritable) ==
  LET exists == dir.kind # "absent"
      made == IF exists THEN dir ELSE [kind |-> "dir", writable |-> createdWritable]
  IN IF ~exists /\ mkdirFault # "none"
       THEN [dir |-> dir, error |-> mkdirFault]
     ELSE IF ~made.writable
       THEN [dir |-> made, error |-> NotWritableMessage]
     ELSE [dir |-> made, error |-> "none"]

InInit ==
  /\ inEnv \in InEnvs
  /\ inDir = inEnv.dir
  /\ inPc = "start"
  /\ inError = "none"
  /\ inRequests = 0

\* nothing is installed while another subsystem is studied
InIdle ==
  /\ inEnv = [adapter |-> "ok", dir |-> Absent, mkdir |-> "none",
              createdWritable |-> TRUE, server |-> "ok"]
  /\ inDir = Absent
  /\ inPc = "idle"
  /\ inError = "none"
  /\ inRequests = 0

\* installMcpServer up to `if ("error" in installPath) throw`
InstallGetPath ==
  /\ inPc = "start"
  /\ IF inEnv.adapter = "error"
       THEN inPc' = "rejected" /\ inError' = "installPath.error"
       ELSE inPc' = "ensure" /\ UNCHANGED inError
  /\ UNCHANGED <<inEnv, inDir, inRequests, notIn>>

\* await ensureDirectory(installPath.dir); a throw reaches the catch of
\* installMcpServer, which shows a Notice and rethrows
InstallEnsureDirectory ==
  /\ inPc = "ensure"
  /\ LET r == EnsureDirectory(inDir, inEnv.mkdir, inEnv.createdWritable)
     IN /\ inDir' = r.dir
        /\ inError' = r.error
        /\ inPc' = IF r.error = "none" THEN "download" ELSE "rejected"
  /\ UNCHANGED <<inEnv, inRequests, notIn>>

\* downloadFile(downloadUrl, installPath.path) subscribed: https.get is called
InstallSubscribe ==
  /\ inPc = "download"
  /\ inRequests' = inRequests + 1
  /\ inPc' = "downloading"
  /\ UNCHANGED <<inEnv, inDir, inError, notIn>>

\* the download ends: createWriteStream fails when the parent is no directory
InstallSettle ==
  /\ inPc = "downloading"
  /\ IF inDir.kind # "dir" THEN inPc' = "rejected" /\ inError' = "ENOTDIR"
     ELSE IF inEnv.server = "error" THEN inPc' = "rejected" /\ inError' = "download"
     ELSE inPc' = "resolved" /\ UNCHANGED inError
  /\ UNCHANGED <<inEnv, inDir, inRequests, notIn>>

InNext ==
  \/ InstallGetPath
  \/ InstallEnsureDirectory
  \/ InstallSubscribe
  \/ InstallSettle

\* C28: no download request is issued unless the install directory exists and
\* is writable; a directory that could not be created and one that exists
\* without write access both abort the install before any request, each with
\* its own error.
NoDownloadWithoutDirectory ==
  LET past == inPc \notin {"idle", "start", "ensure"} /\ inEnv.adapter = "ok"
      notCreated == inEnv.dir.kind = "absent" /\ inEnv.mkdir # "none"
      notWritable == \/ inEnv.dir.kind # "absent" /\ ~inEnv.dir.writable
                     \/ /\ inEnv.dir.kind = "absent" /\ inEnv.mkdir = "none"
                        /\ ~inEnv.createdWritable
  IN /\ inRequests > 0 => (inDir.kind = "dir" /\ inDir.writable)
     /\ (past /\ notCreated) =>
          (inPc = "rejected" /\ inRequests = 0 /\ inError \in MkdirFaults \ {"none"})
     /\ (past /\ notWritable) =>
          (inPc = "rejected" /\ inRequests = 0 /\ inError = NotWritableMessage)

\* ------------------------------------------------------------------ McpToolsPlugin.onload
\* how lastValueFrom(loadLocalRestAPI(this)) settles: rejected (the observable
\* errors or completes empty), or fulfilled with no value, with a dependency
\* without api, with an api that lacks addRoute or has one that is no
\* function, or with a usable api
LoadOutcomes == {"error", "empty", "undefinedValue", "noApi", "noAddRoute",
                 "addRouteNotFunction", "usable"}

\* which call of a usable api throws
ThrowPoints == {"none", "addRoute /search/smart", "post /search/smart",
                "addRoute /templates/execute", "post /templates/execute"}
OlEnvs == [load : LoadOutcomes, throwAt : ThrowPoints]

SuccessMessage == "info MCP Tools Plugin loaded successfully"

\* a body that reports success before it registers anything
RegistrationSuccessFirst ==
  <<SuccessMessage,
    "addRoute /templates/execute", "post /templates/execute",
    "info Registered endpoint: POST /templates/execute",
    "addRoute /search/smart", "post /search/smart",
    "info Registered endpoint: POST /search/smart">>

\* the statements of the try block, in order
Registration ==
  <<"addRoute /search/smart", "post /search/smart",
    "info Registered endpoint: POST /search/smart",
    "addRoute /templates/execute", "post /templates/execute",
    "info Registered endpoint: POST /templates/execute",
    SuccessMessage>>

\* new Notice(`${this.manifest.name}: ...`) without a duration
TransientNotice(text) == [text |-> text, duration |-> 5000, named |-> TRUE]

\* new Notice(`${this.manifest.name}: ...`, 0)
PersistentNotice(text) == [text |-> text, duration |-> 0, named |-> TRUE]

\* the statements of the try block that run when the call throwAt throws: the
\* throwing call is the last one made
RECURSIVE RunUntil(_, _)
RunUntil(steps, throwAt) ==
  IF steps = <<>> THEN <<>>
  ELSE IF Head(steps) = throwAt THEN <<Head(steps)>>
  ELSE <<Head(steps)>> \o RunUntil(Tail(steps), throwAt)

\* the .then callback: what it calls and logs, the notices it shows, and
\* whether it throws
OnLoaded(env) ==
  CASE env.load = "undefinedValue" ->
         [trace |-> <<>>, notices |-> <<>>, threw |-> TRUE]
    [] env.load = "noApi" ->
         [trace |-> <<"error Local REST API plugin not found">>,
          notices |-> <<PersistentNotice("Local REST API plugin is required but not found")>>,
          threw |-> FALSE]
    [] env.load \in {"noAddRoute", "addRouteNotFunction"} ->
         [trace |-> <<"error Local REST API plugin does not support addRoute API">>,
          notices |-> <<PersistentNotice("Local REST API plugin version is outdated")>>,
          threw |-> FALSE]
    [] OTHER ->
         IF env.throwAt = "none"
           THEN [trace |-> Registration, notices |-> <<>>, threw |-> FALSE]
           ELSE [trace |-> RunUntil(Registration, env.throwAt)
                             \o <<"error Failed to register endpoints">>,
                 notices |-> <<PersistentNotice("Failed to register API endpoints")>>,
                 threw |-> FALSE]

OlInit ==
  /\ olEnv \in OlEnvs
  /\ olPc = "start"
  /\ olTrace = <<>>
  /\ olNotices = <<>>

\* the plugin is not loaded while another subsystem is studied
OlIdle ==
  /\ olEnv = [load |-> "usable", throwAt |-> "none"]
  /\ olPc = "idle"
  /\ olTrace = <<>>
  /\ olNotices = <<>>

\* onload up to lastValueFrom(...): the two setups, then the load is started
\* and onload returns without waiting for it
OnloadSetup ==
  /\ olPc = "start"
  /\ olPc' = "loading"
  /\ UNCHANGED <<olEnv, olTrace, olNotices, notOl>>

\* .then((localRestApi) => ...)
OnloadThen ==
  /\ olPc = "loading"
  /\ olEnv.load \notin {"error", "empty"}
  /\ LET r == OnLoaded(olEnv)
     IN /\ olTrace' = olTrace \o r.trace
        /\ olNotices' = olNotices \o r.notices
        /\ olPc' = IF r.threw THEN "rejected" ELSE "done"
  /\ UNCHANGED <<olEnv, notOl>>

\* the load itself is rejected
OnloadRejected ==
  /\ olPc = "loading"
  /\ olEnv.load \in {"error", "empty"}
  /\ olPc' = "rejected"
  /\ UNCHANGED <<olEnv, olTrace, olNotices, notOl>>

\* .catch((error) => ...)
OnloadCatch ==
  /\ olPc = "rejected"
  /\ olTrace' = olTrace \o <<"error Failed to load Local REST API plugin">>
  /\ olNotices' = olNotices
                    \o <<PersistentNotice("Failed to load Local REST API plugin")>>
  /\ olPc' = "done"
  /\ UNCHANGED <<olEnv, notOl>>

OlNext ==
  \/ OnloadSetup
  \/ OnloadThen
  \/ OnloadRejected
  \/ OnloadCatch

\* position of an entry in the trace, 0 when it is not there
IndexOf(seq, e) ==
  IF \E i \in 1..Len(seq) : seq[i] = e
    THEN CHOOSE i \in 1..Len(seq) : seq[i] = e /\ \A j \in 1..(i - 1) : seq[j] # e
    ELSE 0

Occurs(e) == IndexOf(olTrace, e) # 0
AddRouteCalls == {i \in 1..Len(olTrace) :
                    olTrace[i] \in {"addRoute /search/smart", "addRoute /templates/execute"}}
OnePersistentNotice ==
  /\ Len(olNotices) = 1
  /\ olNotices[1].duration = 0
  /\ olNotices[1].named

\* C29: endpoints are registered only when the Local REST API is present and
\* its addRoute is a function; otherwise, once loading has settled, there is
\* exactly one notice, persistent and naming the plugin, addRoute was never
\* called and the success message was not logged.
RegistersOnlyOnUsableApi ==
  /\ AddRouteCalls # {} => olEnv.load = "usable"
  /\ (olPc = "done" /\ olEnv.load \in {"noApi", "noAddRoute", "addRouteNotFunction"}) =>
       /\ OnePersistentNotice
       /\ AddRouteCalls = {}
       /\ ~Occurs(SuccessMessage)

\* C29 witness: the api has an addRoute that is no function.
OutdatedApiReported ==
  /\ olPc = "done"
  /\ olEnv.load = "addRouteNotFunction"
  /\ olNotices = <<PersistentNotice("Local REST API plugin version is outdated")>>

\* C30: with a usable api /search/smart is registered before
\* /templates/execute and the success message is logged only after both; when
\* addRoute or post throws, or loading the api fails, the failure is logged,
\* there is exactly one persistent notice and success is never logged.
RegistrationOrdered ==
  LET smart == IndexOf(olTrace, "post /search/smart")
      templates == IndexOf(olTrace, "post /templates/execute")
      success == IndexOf(olTrace, SuccessMessage)
      failed == \/ olEnv.load \in {"error", "empty", "undefinedValue"}
                \/ olEnv.load = "usable" /\ olEnv.throwAt # "none"
  IN /\ templates # 0 => (smart # 0 /\ smart < templates)
     /\ IndexOf(olTrace, "addRoute /templates/execute") # 0 =>
          (smart # 0 /\ smart < IndexOf(olTrace, "addRoute /templates/execute"))
     /\ success # 0 =>
          /\ smart # 0 /\ templates # 0 /\ smart < success /\ templates < success
          /\ ~failed
     /\ (olPc = "done" /\ olEnv.load = "usable" /\ olEnv.throwAt = "none") =>
          (success = Len(olTrace) /\ olNotices = <<>>)
     /\ (olPc = "done" /\ failed) =>
          /\ OnePersistentNotice
          /\ success = 0
          /\ \/ Occurs("error Failed to register endpoints")
             \/ Occurs("error Failed to load Local REST API plugin")

\* C30 witness: the second registration throws after the first one succeeded.
SecondRegistrationThrows ==
  /\ olPc = "done"
  /\ olEnv.throwAt = "post /templates/execute"
  /\ Occurs("info Registered endpoint: POST /search/smart")
  /\ Occurs("error Failed to register endpoints")
  /\ ~Occurs(SuccessMessage)

\* ------------------------------------------------------------------ the configuration file with another writer
\* what another writer (the host application) puts into the file
ForeignEntry == [command |-> "uvx", hasArgs |-> TRUE, env |-> EmptyMap]
ForeignEdits == {"entry", "key"}

\* the file after another writer's edit: an entry of its own added or
\* changed, or another top-level key changed; our entry is left alone
ForeignEdit(f, edit) ==
  LET d == IF f.kind = "json" THEN f.doc ELSE EmptyDoc
  IN JsonFile(IF edit = "entry"
                THEN [mcp |-> "object",
                      servers |-> Put(IF d.mcp = "object" THEN d.servers ELSE EmptyMap,
                                      OtherId, ForeignEntry),
                      other |-> d.other]
                ELSE [d EXCEPT !.other = "light"])

\* the part of the file that is not our entry
Unrelated(f) ==
  IF f.kind # "json" THEN [servers |-> EmptyMap, other |-> "none"]
  ELSE [servers |-> Delete(f.doc.servers, ServerId), other |-> f.doc.other]

NoRead == [err |-> "none", config |-> EmptyDoc]

CwInit ==
  /\ cwFile \in {AbsentFile, MalformedFile} \cup {JsonFile(d) : d \in InitDocs}
  /\ cwCall = [op |-> "none", apiKey |-> Undefined]
  /\ cwPc = "start"
  /\ cwRead = NoRead
  /\ cwForeign = 0

\* no call is running while another subsystem is studied
CwIdle ==
  /\ cwFile = AbsentFile
  /\ cwCall = [op |-> "none", apiKey |-> Undefined]
  /\ cwPc = "idle"
  /\ cwRead = NoRead
  /\ cwForeign = 0

\* updateClaudeConfig / removeFromClaudeConfig up to the end of
\* `await fsp.readFile(...)` and JSON.parse
CwReadFile ==
  /\ cwPc = "start"
  /\ \E op \in {"update", "remove"}, apiKey \in ApiKeys :
       LET read == ReadConfig(cwFile, "ok")
       IN /\ cwCall' = [op |-> op, apiKey |-> IF op = "update" THEN apiKey ELSE Undefined]
          /\ cwRead' = read
          /\ cwPc' = CASE read.err = "SyntaxError" -> "failed"
                        [] read.err = "ENOENT" /\ op = "remove" -> "done"
                        [] op = "remove" /\ ~HasEntry(read.config) -> "done"
                        [] OTHER -> "read"
  /\ UNCHANGED <<cwFile, cwForeign, notCw>>

\* the rest of the call: the document read earlier is changed in memory and
\* `await fsp.writeFile(configPath, JSON.stringify(config, null, 2))`
CwWriteFile ==
  /\ cwPc = "read"
  /\ LET entry == BuildEntry("/vault/bin/mcp-server", cwCall.apiKey, NoSettings)
         config == IF cwCall.op = "update" THEN Upsert(cwRead.config, entry)
                                           ELSE RemoveEntry(cwRead.config)
     IN cwFile' = WriteFile(cwFile, Stringify(config), "ok")
  /\ cwPc' = "done"
  /\ UNCHANGED <<cwCall, cwRead, cwForeign, notCw>>

\* another program rewrites the file, at any moment
CwForeignWrite ==
  /\ cwPc \in {"start", "read", "done", "failed"}
  /\ cwForeign < MaxForeignWrites
  /\ \E edit \in ForeignEdits : cwFile' = ForeignEdit(cwFile, edit)
  /\ cwForeign' = cwForeign + 1
  /\ UNCHANGED <<cwCall, cwPc, cwRead, notCw>>

CwNext ==
  \/ CwReadFile
  \/ CwWriteFile
  \/ CwForeignWrite

\* C34: the write of updateClaudeConfig / removeFromClaudeConfig leaves every
\* unrelated entry and key as it is in the file at that moment, also when
\* another writer changed it after the call had read the file.
ForeignChangeKept ==
  [][(cwPc = "read" /\ cwPc' = "done") => Unrelated(cwFile') = Unrelated(cwFile)]_vars

\* ------------------------------------------------------------------ McpToolsPlugin.handleTemplateExecution
\* A value of templater.functions_generator.generate_object: the requests
\* whose override wraps the original function, outermost first; <<>> is the
\* original function itself.
OriginalGenerate == <<>>

\* the override a request installs around the function it found
Override(r, oldGenerateObject) == <<r>> \o oldGenerateObject

\* whose `prompt` the functions object carries after a call of fn: every
\* wrapper assigns mcpTools after the function it wraps, so the outermost one
\* wins; 0 when fn is the original
PromptOf(fn) == IF fn = <<>> THEN 0 ELSE Head(fn)

Requests == 1..MaxRequests
NewRequest == [pc |-> "received", old |-> OriginalGenerate, seen |-> 0]

TpInit ==
  /\ tpGenerate = OriginalGenerate
  /\ tpReq = [r \in Requests |-> NewRequest]

\* no request is handled while another subsystem is studied
TpIdle ==
  /\ tpGenerate = OriginalGenerate
  /\ tpReq = [r \in Requests |-> [NewRequest EXCEPT !.pc = "idle"]]

\* the request ends before the override: Templater missing (503), invalid
\* body (400), template file not found (404), or a throw caught (503)
TpReject(r) ==
  /\ tpReq[r].pc = "received"
  /\ tpReq' = [tpReq EXCEPT ![r].pc = "responded"]
  /\ UNCHANGED <<tpGenerate, notTp>>

\* from create_running_config to the call of read_and_parse_template: the
\* current function is kept as oldGenerateObject and the override installed
TpOverride(r) ==
  /\ tpReq[r].pc = "received"
  /\ tpReq' = [tpReq EXCEPT ![r].pc = "parsing", ![r].old = tpGenerate]
  /\ tpGenerate' = Override(r, tpGenerate)
  /\ UNCHANGED notTp

\* inside read_and_parse_template, Templater calls
\* functions_generator.generate_object: the function installed at that moment
TpGenerateObject(r) ==
  /\ tpReq[r].pc = "parsing"
  /\ tpReq' = [tpReq EXCEPT ![r].pc = "generated", ![r].seen = PromptOf(tpGenerate)]
  /\ UNCHANGED <<tpGenerate, notTp>>

\* read_and_parse_template rejects: the catch answers 503, nothing is restored
TpParseThrows(r) ==
  /\ tpReq[r].pc \in {"parsing", "generated"}
  /\ tpReq' = [tpReq EXCEPT ![r].pc = "responded"]
  /\ UNCHANGED <<tpGenerate, notTp>>

\* read_and_parse_template resolves: generate_object = oldGenerateObject, then
\* the file is created if asked for and the response sent
TpRestore(r) ==
  /\ tpReq[r].pc = "generated"
  /\ tpGenerate' = tpReq[r].old
  /\ tpReq' = [tpReq EXCEPT ![r].pc = "responded"]
  /\ UNCHANGED notTp

TpNext ==
  \E r \in Requests :
    \/ TpReject(r)
    \/ TpOverride(r)
    \/ TpGenerateObject(r)
    \/ TpParseThrows(r)
    \/ TpRestore(r)

\* C37: when every template-execution request has been answered, the
\* Templater generate_object function is the original one again.
OverrideRemoved ==
  (\A r \in Requests : tpReq[r].pc = "responded") => tpGenerate = OriginalGenerate

\* C38: the prompt values a request's template is rendered with never come
\* from another request.
OwnArgumentsOnly ==
  \A r \in Requests : tpReq[r].seen \in {0, r}

\* ------------------------------------------------------------------ specifications
InitDownload == DlInit /\ CfgIdle /\ StIdle /\ NpIdle /\ RsIdle /\ RpIdle /\ PgIdle /\ PlIdle /\ InIdle /\ OlIdle /\ CwIdle /\ TpIdle
SpecDownload == InitDownload /\ [][DlNext]_vars

InitConfig == DlIdle /\ CfgInit /\ StIdle /\ NpIdle /\ RsIdle /\ RpIdle /\ PgIdle /\ PlIdle /\ InIdle /\ OlIdle /\ CwIdle /\ TpIdle
SpecConfig == InitConfig /\ [][CfgNext]_vars

InitStatus == DlIdle /\ CfgIdle /\ StInit /\ NpIdle /\ RsIdle /\ RpIdle /\ PgIdle /\ PlIdle /\ InIdle /\ OlIdle /\ CwIdle /\ TpIdle
SpecStatus == InitStatus /\ [][StNext]_vars

InitPath == DlIdle /\ CfgIdle /\ StIdle /\ NpInit /\ RsIdle /\ RpIdle /\ PgIdle /\ PlIdle /\ InIdle /\ OlIdle /\ CwIdle /\ TpIdle
SpecPath == InitPath /\ [][NpNext]_vars

InitResolve == DlIdle /\ CfgIdle /\ StIdle /\ NpIdle /\ RsInit /\ RpIdle /\ PgIdle /\ PlIdle /\ InIdle /\ OlIdle /\ CwIdle /\ TpIdle
SpecResolve == InitResolve /\ [][RsNext]_vars

InitResponse == DlIdle /\ CfgIdle /\ StIdle /\ NpIdle /\ RsIdle /\ RpInit /\ PgIdle /\ PlIdle /\ InIdle /\ OlIdle /\ CwIdle /\ TpIdle
SpecResponse == InitResponse /\ [][RpNext]_vars

InitProgress == DlIdle /\ CfgIdle /\ StIdle /\ NpIdle /\ RsIdle /\ RpIdle /\ PgInit /\ PlIdle /\ InIdle /\ OlIdle /\ CwIdle /\ TpIdle
SpecProgress == InitProgress /\ [][PgNext]_vars

InitResolvers == DlIdle /\ CfgIdle /\ StIdle /\ NpIdle /\ RsIdle /\ RpIdle /\ PgIdle /\ PlInit /\ InIdle /\ OlIdle /\ CwIdle /\ TpIdle
SpecResolvers == InitResolvers /\ [][PlNext]_vars

InitInstall == DlIdle /\ CfgIdle /\ StIdle /\ NpIdle /\ RsIdle /\ RpIdle /\ PgIdle /\ PlIdle /\ InInit /\ OlIdle /\ CwIdle /\ TpIdle
SpecInstall == InitInstall /\ [][InNext]_vars

InitOnload == DlIdle /\ CfgIdle /\ StIdle /\ NpIdle /\ RsIdle /\ RpIdle /\ PgIdle /\ PlIdle /\ InIdle /\ OlInit /\ CwIdle /\ TpIdle
SpecOnload == InitOnload /\ [][OlNext]_vars

InitConcurrent == DlIdle /\ CfgIdle /\ StIdle /\ NpIdle /\ RsIdle /\ RpIdle /\ PgIdle /\ PlIdle /\ InIdle /\ OlIdle /\ CwInit /\ TpIdle
SpecConcurrent == InitConcurrent /\ [][CwNext]_vars

InitTemplate == DlIdle /\ CfgIdle /\ StIdle /\ NpIdle /\ RsIdle /\ RpIdle /\ PgIdle /\ PlIdle /\ InIdle /\ OlIdle /\ CwIdle /\ TpInit
SpecTemplate == InitTemplate /\ [][TpNext]_vars

====
